---- MODULE Spec2Model ----
(***************************************************************************)
(* Engagement decision engine of the Discord multi-account manager         *)
(* (src/src/discordManager.ts): Chain Guard, Media Cadence, Recency Cache, *)
(* Interaction Ledger and the messageCreate handler that composes them.    *)
(*                                                                         *)
(* JavaScript runs every handler to completion between two awaits, so one  *)
(* action of the model is the code between two suspension points.          *)
(* Date.now() is the variable now, in milliseconds counted from an epoch   *)
(* chosen so that the values fit 32-bit integers.                          *)
(***************************************************************************)
EXTENDS Integers, Sequences, FiniteSets, TLC

\* ------------------------------------------------------------------------
\* Program constants (src/src/constants.ts and literals of discordManager.ts)
\* ------------------------------------------------------------------------
MAX_BOT_CHAIN == 3
BOT_CHAIN_INACTIVITY_RESET_MS == 600000
RECENTLY_SENT_IMAGE_CACHE_SIZE == 30
MAX_UNIQUE_IMAGE_FETCH_ATTEMPTS == 5
INTERACTION_TRACKING_CLEANUP_THRESHOLD == 1000
INTERACTION_TRACKING_RETENTION_MS == 24 * 60 * 60 * 1000
CHAIN_CLEANUP_THRESHOLD == 1000
TRACKER_CLEANUP_THRESHOLD == 1000
MAX_RESPONSE_DELAY_MS == 15 * 60 * 1000
MIN_RESPONSE_DELAY_MS == 2000
SAFE_DELAY_LIMIT_MS == 30000
SAFE_DELAY_MS == 10000
INSTANT_RESPONSE_DELAY_MS == 1000
INSTANT_TYPING_DELAY_MS == 200
FIRST_INTERACTION_MS == 30000
DM_CLEANUP_THRESHOLD == 1000
REDDIT_API_RATE_LIMIT_MS == 1000
REDDIT_MAX_RETRIES == 3
REDDIT_RETRY_DELAY_MS == 2000
DM_RETENTION_MS == 7 * 24 * 60 * 60 * 1000
PROBABILITY_UNIT == 10000 * 10000
MAX_INTERACTION_RATE == 100

\* ------------------------------------------------------------------------
\* Bounds of the model
\* ------------------------------------------------------------------------
StartClock == 1000000000
MaxTicks == 2
MaxGuardSteps == 7
MaxCadenceSteps == 7
RandDen == 4
MaxMessages == 4
MaxMediaMessages == 3
MaxReplyMessages == 2
MaxLedgerSteps == 3
MaxTimingMessages == 2
MaxDirectMessages == 4
MaxCacheMessages == 2
MaxEvictionSteps == 2
MaxTerminationMessages == 2
MaxEnvValue == 5
MaxRedditCalls == 4

\* ------------------------------------------------------------------------
\* Universe
\* ------------------------------------------------------------------------
Accounts == {"bot1", "user1"}
Humans == {"human1"}
ExternalBots == {"xbot"}
GuildChannels == {"g1", "g2"}
DMChannels == {"d1"}
Channels == GuildChannels \cup DMChannels
Handlers == {1, 2}
ReplyAccounts == {"bot1"}
Items == {"img1", "img2"}
None == "none"
TickSteps == {1, BOT_CHAIN_INACTIVITY_RESET_MS}

VARIABLES
  accountConfigs,           \* account id -> AccountConfig (fixed after start)
  accountToAccountChains,   \* channel id -> AccountConversationChain
  channelMessageTrackers,   \* channel id -> ChannelMessageTracker
  recentlySentRedditImagesByChannel,  \* channel id -> list of image ids
  now,                      \* Date.now()
  ticks,                    \* number of clock advances so far
  guardSteps,               \* number of guard operations so far
  guardObs,                 \* observer of the Chain Guard
  cadenceSteps,             \* number of cadence operations so far
  cadenceObs,               \* observer of the Media Cadence
  lastInteractionTimes,     \* <<channel, user, account>> -> time of last reply
  handlers,                 \* running invocations of the messageCreate handler
  msgCount,                 \* number of message events delivered so far
  dmConversationCounts,     \* <<account, user>> -> count and time of direct messages
  replyObs,                 \* observer of the sends and of the ledger writes
  ledgerSteps,              \* number of ledger operations so far
  timing,                   \* one evaluation of the Timing Model: inputs and results
  chance,                   \* one evaluation of the Probability Model: inputs and results
  shadowGuard,              \* a Chain Guard that never evicts, fed the same events
  loaded,                   \* one evaluation of the configuration loader: inputs and result
  rateLimit,                \* redditAPI.ts: lastRedditRequestTime and the callers of enforceRateLimit
  retry                     \* redditAPI.ts: one call of fetchSubredditImages inside retryWithBackoff

configVars == <<accountConfigs>>
guardVars == <<accountToAccountChains, guardSteps, guardObs>>
cadenceVars == <<channelMessageTrackers, recentlySentRedditImagesByChannel,
                 cadenceSteps, cadenceObs>>
clockVars == <<now, ticks>>
handlerVars == <<lastInteractionTimes, handlers, msgCount>>
dmVars == <<dmConversationCounts>>
obsVars == <<replyObs>>
extraVars == <<shadowGuard, loaded, rateLimit, retry>>
timingVars == <<ledgerSteps, timing, chance, extraVars>>
vars == <<configVars, guardVars, cadenceVars, clockVars, handlerVars,
          dmVars, obsVars, timingVars>>

\* ------------------------------------------------------------------------
\* Maps (JavaScript Map): functions whose domain is the set of keys
\* ------------------------------------------------------------------------
EmptyMap == <<>>
MapHas(m, k) == k \in DOMAIN m
MapSet(m, k, v) == [x \in DOMAIN m \cup {k} |-> IF x = k THEN v ELSE m[x]]
MapDelete(m, K) == [x \in DOMAIN m \ K |-> m[x]]
MapSize(m) == Cardinality(DOMAIN m)

\* ------------------------------------------------------------------------
\* Chain Guard
\* ------------------------------------------------------------------------
NewChain == [chainCount |-> 0, lastAccountId |-> "", lastActivity |-> 0]

\* A variant that drops every entry that was not written at this instant
ChainCleanup_eager(chains, t) ==
  IF MapSize(chains) > CHAIN_CLEANUP_THRESHOLD
  THEN MapDelete(chains, {k \in DOMAIN chains : chains[k].lastActivity < t})
  ELSE chains

\* Sweep of stale entries, run when the map has grown past the threshold
ChainCleanup(chains, t) ==
  IF MapSize(chains) > CHAIN_CLEANUP_THRESHOLD
  THEN MapDelete(chains, {k \in DOMAIN chains :
                   chains[k].lastActivity < t - BOT_CHAIN_INACTIVITY_RESET_MS * 2})
  ELSE chains

\* A variant that blocks one reply too late
shouldAllowAccountResponse_late(chains, channelId, ourAccountId, t) ==
  LET stored == IF MapHas(chains, channelId) THEN chains[channelId] ELSE NewChain
      chainData == IF t - stored.lastActivity > BOT_CHAIN_INACTIVITY_RESET_MS
                   THEN [stored EXCEPT !.chainCount = 0, !.lastAccountId = ""]
                   ELSE stored
      same == chainData.lastAccountId # "" /\ chainData.lastAccountId = ourAccountId
  IN IF same /\ chainData.chainCount > MAX_BOT_CHAIN
     THEN [allowed |-> FALSE, chains |-> chains]
     ELSE [allowed |-> TRUE,
           chains |-> MapSet(chains, channelId,
                        [chainCount |-> IF same THEN chainData.chainCount + 1 ELSE 1,
                         lastAccountId |-> ourAccountId,
                         lastActivity |-> t])]

\* A variant that starts the count over on every allowed reply
shouldAllowAccountResponse_undercount(chains, channelId, ourAccountId, t) ==
  LET stored == IF MapHas(chains, channelId) THEN chains[channelId] ELSE NewChain
      chainData == IF t - stored.lastActivity > BOT_CHAIN_INACTIVITY_RESET_MS
                   THEN [stored EXCEPT !.chainCount = 0, !.lastAccountId = ""]
                   ELSE stored
      same == chainData.lastAccountId # "" /\ chainData.lastAccountId = ourAccountId
  IN IF same /\ chainData.chainCount >= MAX_BOT_CHAIN
     THEN [allowed |-> FALSE, chains |-> chains]
     ELSE [allowed |-> TRUE,
           chains |-> MapSet(chains, channelId,
                        [chainCount |-> 1,
                         lastAccountId |-> ourAccountId,
                         lastActivity |-> t])]

\* A variant in which a blocked attempt counts as activity of the chain
shouldAllowAccountResponse_touch(chains, channelId, ourAccountId, t) ==
  LET stored == IF MapHas(chains, channelId) THEN chains[channelId] ELSE NewChain
      chainData == IF t - stored.lastActivity > BOT_CHAIN_INACTIVITY_RESET_MS
                   THEN [stored EXCEPT !.chainCount = 0, !.lastAccountId = ""]
                   ELSE stored
      same == chainData.lastAccountId # "" /\ chainData.lastAccountId = ourAccountId
  IN IF same /\ chainData.chainCount >= MAX_BOT_CHAIN
     THEN [allowed |-> FALSE,
           chains |-> MapSet(chains, channelId, [chainData EXCEPT !.lastActivity = t])]
     ELSE [allowed |-> TRUE,
           chains |-> MapSet(chains, channelId,
                        [chainCount |-> IF same THEN chainData.chainCount + 1 ELSE 1,
                         lastAccountId |-> ourAccountId,
                         lastActivity |-> t])]

\* shouldAllowAccountResponse(channelId, ourAccountId) at time t: the decision
\* and the map after the call
shouldAllowAccountResponse(chains, channelId, ourAccountId, t) ==
  IF channelId = ""
  THEN [allowed |-> TRUE, chains |-> chains]
  ELSE
  LET stored == IF MapHas(chains, channelId) THEN chains[channelId] ELSE NewChain
      timeSinceLast == t - stored.lastActivity
      chainData == IF timeSinceLast > BOT_CHAIN_INACTIVITY_RESET_MS
                   THEN [stored EXCEPT !.chainCount = 0, !.lastAccountId = ""]
                   ELSE stored
      same == chainData.lastAccountId # "" /\ chainData.lastAccountId = ourAccountId
  IN IF same /\ chainData.chainCount >= MAX_BOT_CHAIN
     THEN [allowed |-> FALSE, chains |-> chains]
     ELSE [allowed |-> TRUE,
           chains |-> ChainCleanup(
                        MapSet(chains, channelId,
                          [chainCount |-> IF same THEN chainData.chainCount + 1 ELSE 1,
                           lastAccountId |-> ourAccountId,
                           lastActivity |-> t]), t)]

\* lines 73-98: the decision and the write, without the sweep of lines 101-108
GuardWithoutEviction(chains, channelId, ourAccountId, t) ==
  LET stored == IF MapHas(chains, channelId) THEN chains[channelId] ELSE NewChain
      chainData == IF t - stored.lastActivity > BOT_CHAIN_INACTIVITY_RESET_MS
                   THEN [stored EXCEPT !.chainCount = 0, !.lastAccountId = ""]
                   ELSE stored
      same == chainData.lastAccountId # "" /\ chainData.lastAccountId = ourAccountId
  IN IF same /\ chainData.chainCount >= MAX_BOT_CHAIN
     THEN [allowed |-> FALSE, chains |-> chains]
     ELSE [allowed |-> TRUE,
           chains |-> MapSet(chains, channelId,
                        [chainCount |-> IF same THEN chainData.chainCount + 1 ELSE 1,
                         lastAccountId |-> ourAccountId,
                         lastActivity |-> t])]

\* A variant that leaves the entry in place
resetChain_keep(chains, channelId) == chains

\* A variant in which a human message ends the chains of every channel
resetChain_all(chains, channelId) == EmptyMap

\* Reset of a channel's chain by a message of a real user
resetChain(chains, channelId) ==
  IF MapHas(chains, channelId) THEN MapDelete(chains, {channelId}) ELSE chains

\* ------------------------------------------------------------------------
\* Observer of the Chain Guard (it does not influence the program):
\*   run      per channel, the trailing run of allowed replies of one identity
\*   len      per channel, the allowed replies since the last reset
\*   blocked  per channel, the identity whose candidate reply was blocked last
\*   human    per channel, a human message was the last guard event
\*   cleared  per channel, the run that this human message has ended
\*   last     the last guard operation and what the observer held before it
\* ------------------------------------------------------------------------
NoRun == [id |-> "", n |-> 0, lastT |-> 0]
NoGuard == [kind |-> "none", ch |-> "", id |-> "", t |-> 0, allowed |-> FALSE,
            runBefore |-> NoRun, blockedBefore |-> "", humanBefore |-> FALSE,
            clearedBefore |-> NoRun]
InitGuardObs ==
  [run |-> [c \in Channels |-> NoRun],
   len |-> [c \in Channels |-> 0],
   blocked |-> [c \in Channels |-> ""],
   human |-> [c \in Channels |-> FALSE],
   cleared |-> [c \in Channels |-> NoRun],
   last |-> NoGuard]

\* consecutive allowed replies of one identity, none more than the
\* inactivity window after the previous one
RunAfterAllow(run, id, t) ==
  IF run.id = id /\ t - run.lastT <= BOT_CHAIN_INACTIVITY_RESET_MS
  THEN [id |-> id, n |-> run.n + 1, lastT |-> t]
  ELSE [id |-> id, n |-> 1, lastT |-> t]

\* allowed replies of any identity since the last reset of the channel
LenAfterAllow(len, run, t) ==
  IF len > 0 /\ t - run.lastT <= BOT_CHAIN_INACTIVITY_RESET_MS THEN len + 1 ELSE 1

ObserveCandidate(o, c, id, allowed, t) ==
  [run |-> IF allowed THEN [o.run EXCEPT ![c] = RunAfterAllow(@, id, t)] ELSE o.run,
   len |-> IF allowed THEN [o.len EXCEPT ![c] = LenAfterAllow(@, o.run[c], t)] ELSE o.len,
   blocked |-> [o.blocked EXCEPT ![c] = IF allowed THEN "" ELSE id],
   human |-> [o.human EXCEPT ![c] = FALSE],
   cleared |-> [o.cleared EXCEPT ![c] = NoRun],
   last |-> [kind |-> "call", ch |-> c, id |-> id, t |-> t, allowed |-> allowed,
             runBefore |-> o.run[c], blockedBefore |-> o.blocked[c],
             humanBefore |-> o.human[c], clearedBefore |-> o.cleared[c]]]

ObserveHuman(o, c, t) ==
  [run |-> [o.run EXCEPT ![c] = NoRun],
   len |-> [o.len EXCEPT ![c] = 0],
   blocked |-> [o.blocked EXCEPT ![c] = ""],
   human |-> [o.human EXCEPT ![c] = TRUE],
   cleared |-> [o.cleared EXCEPT ![c] = IF o.human[c] THEN @ ELSE o.run[c]],
   last |-> [NoGuard EXCEPT !.kind = "human", !.ch = c, !.t = t]]

\* ------------------------------------------------------------------------
\* Account configuration (AccountConfig); subreddits is the number of
\* validated subreddits, interactionRate 0 stands for "not set"
\* ------------------------------------------------------------------------
NoReddit == [present |-> FALSE, subreddits |-> 0, minMessages |-> 0, maxMessages |-> 0]
Reddit(lo, hi) == [present |-> TRUE, subreddits |-> 1, minMessages |-> lo, maxMessages |-> hi]
AccountType(id) == IF id = "bot1" THEN "bot" ELSE "user"
Config(id, rate, rc) ==
  [id |-> id, accountType |-> AccountType(id), interactionRate |-> rate,
   messageFrequency |-> "", messageBehavior |-> "", redditConfig |-> rc]

DefaultConfigs == [a \in Accounts |-> Config(a, 50, NoReddit)]
CadenceIntervals == {Reddit(2, 2), Reddit(3, 3), Reddit(2, 3), Reddit(1, 1)}

\* ------------------------------------------------------------------------
\* Media Cadence
\* ------------------------------------------------------------------------
\* Math.floor(Math.random() * n) for a whole n >= 1: Math.random() is
\* r / RandDen for r < RandDen, and the largest value below 1 for r = RandDen
RandomFloor(r, n) ==
  IF r >= RandDen THEN (IF n >= 1 THEN n - 1 ELSE n) ELSE (r * n) \div RandDen

\* Math.floor(Math.random() * (max - min + 1) + min)
RandomTarget(rc, r) ==
  RandomFloor(r, rc.maxMessages - rc.minMessages + 1) + rc.minMessages

\* Sweep of old trackers (and their image caches), run on creation of a tracker
TrackerCleanupKeys(trackers, t) ==
  IF MapSize(trackers) > TRACKER_CLEANUP_THRESHOLD
  THEN {k \in DOMAIN trackers :
          /\ trackers[k].lastImageTime > 0
          /\ trackers[k].lastImageTime < t - 30 * 24 * 60 * 60 * 1000}
  ELSE {}

\* A variant that compares with > instead of >=
shouldAttachRedditImage_late(trackers, cache, channelId, cfg, forceImage, t, r) ==
  IF ~cfg.redditConfig.present \/ cfg.redditConfig.subreddits = 0
  THEN [attach |-> FALSE, trackers |-> trackers, cache |-> cache]
  ELSE IF forceImage
  THEN [attach |-> TRUE, trackers |-> trackers, cache |-> cache]
  ELSE IF ~MapHas(trackers, channelId)
  THEN [attach |-> FALSE, cache |-> cache,
        trackers |-> MapSet(trackers, channelId,
                       [messageCount |-> 1,
                        targetMessageCount |-> RandomTarget(cfg.redditConfig, r),
                        lastImageTime |-> 0])]
  ELSE LET tracker == trackers[channelId]
           count == tracker.messageCount + 1
       IN IF count > tracker.targetMessageCount
          THEN [attach |-> TRUE, cache |-> cache,
                trackers |-> MapSet(trackers, channelId,
                               [messageCount |-> 0,
                                targetMessageCount |-> RandomTarget(cfg.redditConfig, r),
                                lastImageTime |-> t])]
          ELSE [attach |-> FALSE, cache |-> cache,
                trackers |-> MapSet(trackers, channelId,
                               [tracker EXCEPT !.messageCount = count])]

\* A variant that keeps counting after a hit instead of starting over
shouldAttachRedditImage_noreset(trackers, cache, channelId, cfg, forceImage, t, r) ==
  IF ~MapHas(trackers, channelId)
  THEN [attach |-> FALSE, cache |-> cache,
        trackers |-> MapSet(trackers, channelId,
                       [messageCount |-> 1,
                        targetMessageCount |-> RandomTarget(cfg.redditConfig, r),
                        lastImageTime |-> 0])]
  ELSE LET tracker == trackers[channelId]
           count == tracker.messageCount + 1
       IN [attach |-> count >= tracker.targetMessageCount, cache |-> cache,
           trackers |-> MapSet(trackers, channelId, [tracker EXCEPT !.messageCount = count])]

\* A variant in which a forced attachment starts the count over, like a hit
shouldAttachRedditImage_forcedCounts(trackers, cache, channelId, cfg, forceImage, t, r) ==
  IF ~cfg.redditConfig.present \/ cfg.redditConfig.subreddits = 0
  THEN [attach |-> FALSE, trackers |-> trackers, cache |-> cache]
  ELSE IF forceImage
  THEN [attach |-> TRUE, cache |-> cache,
        trackers |-> MapSet(trackers, channelId,
                       [messageCount |-> 0,
                        targetMessageCount |-> RandomTarget(cfg.redditConfig, r),
                        lastImageTime |-> t])]
  ELSE IF ~MapHas(trackers, channelId)
  THEN [attach |-> FALSE, cache |-> cache,
        trackers |-> MapSet(trackers, channelId,
                       [messageCount |-> 1,
                        targetMessageCount |-> RandomTarget(cfg.redditConfig, r),
                        lastImageTime |-> 0])]
  ELSE LET tracker == trackers[channelId]
           count == tracker.messageCount + 1
       IN IF count >= tracker.targetMessageCount
          THEN [attach |-> TRUE, cache |-> cache,
                trackers |-> MapSet(trackers, channelId,
                               [messageCount |-> 0,
                                targetMessageCount |-> RandomTarget(cfg.redditConfig, r),
                                lastImageTime |-> t])]
          ELSE [attach |-> FALSE, cache |-> cache,
                trackers |-> MapSet(trackers, channelId,
                               [tracker EXCEPT !.messageCount = count])]

\* shouldAttachRedditImage(channelId, accountConfig, forceImage) at time t with
\* random draw r: the decision and both maps after the call
shouldAttachRedditImage(trackers, cache, channelId, cfg, forceImage, t, r) ==
  IF ~cfg.redditConfig.present \/ cfg.redditConfig.subreddits = 0
  THEN [attach |-> FALSE, trackers |-> trackers, cache |-> cache]
  ELSE IF forceImage
  THEN [attach |-> TRUE, trackers |-> trackers, cache |-> cache]
  ELSE IF ~MapHas(trackers, channelId)
  THEN LET created == MapSet(trackers, channelId,
                        [messageCount |-> 1,
                         targetMessageCount |-> RandomTarget(cfg.redditConfig, r),
                         lastImageTime |-> 0])
           old == TrackerCleanupKeys(created, t)
       IN [attach |-> FALSE,
           trackers |-> MapDelete(created, old),
           cache |-> MapDelete(cache, old)]
  ELSE LET tracker == trackers[channelId]
           count == tracker.messageCount + 1
       IN IF count >= tracker.targetMessageCount
          THEN [attach |-> TRUE, cache |-> cache,
                trackers |-> MapSet(trackers, channelId,
                               [messageCount |-> 0,
                                targetMessageCount |-> RandomTarget(cfg.redditConfig, r),
                                lastImageTime |-> t])]
          ELSE [attach |-> FALSE, cache |-> cache,
                trackers |-> MapSet(trackers, channelId,
                               [tracker EXCEPT !.messageCount = count])]

\* Observer of the cadence: the evaluations that reach the counting part,
\* numbered per channel (evals), those of them since the last true result
\* (since), the true results (hits), and what the entry held before the last
\* evaluation
NoCadence == [kind |-> "none", ch |-> "", id |-> "", n |-> 0, attach |-> FALSE,
              existed |-> FALSE, countBefore |-> 0, targetBefore |-> 0]
InitCadenceObs ==
  [evals |-> [c \in Channels |-> 0],
   since |-> [c \in Channels |-> 0],
   hits |-> [c \in Channels |-> 0],
   last |-> NoCadence]

Counted(cfg, forceImage) ==
  cfg.redditConfig.present /\ cfg.redditConfig.subreddits > 0 /\ ~forceImage

ObserveCadence(o, trackers, c, id, cfg, forceImage, attach) ==
  IF Counted(cfg, forceImage)
  THEN [evals |-> [o.evals EXCEPT ![c] = @ + 1],
        since |-> [o.since EXCEPT ![c] = IF attach THEN 0 ELSE @ + 1],
        hits |-> [o.hits EXCEPT ![c] = IF attach THEN @ + 1 ELSE @],
        last |-> [kind |-> "eval", ch |-> c, id |-> id, n |-> o.evals[c] + 1,
                  attach |-> attach,
                  existed |-> MapHas(trackers, c),
                  countBefore |-> IF MapHas(trackers, c)
                                  THEN trackers[c].messageCount ELSE 0,
                  targetBefore |-> IF MapHas(trackers, c)
                                   THEN trackers[c].targetMessageCount ELSE 0]]
  ELSE [evals |-> o.evals, since |-> o.since, hits |-> o.hits,
        last |-> [NoCadence EXCEPT !.kind = "skip", !.ch = c, !.id = id,
                                   !.attach = attach]]

\* ------------------------------------------------------------------------
\* Inbound messages.  The text is represented by what the handler reads from
\* it: question ('?'), exclamation ('!'), emotionWord (one of the keywords),
\* long (more than 100 characters), urgentWord (help, urgent, quick, asap,
\* emergency), forceImage (two single quotes), instantResponse (a backtick).
\* ------------------------------------------------------------------------
Max2(a, b) == IF a >= b THEN a ELSE b
Min2(a, b) == IF a <= b THEN a ELSE b

ChannelKind(c) ==
  IF c \in DMChannels THEN "dm" ELSE IF c = "g2" THEN "thread" ELSE "text"

\* A variant that lets every channel pass
canRespondToChannel_open(kind, permitted) == TRUE

\* canRespondToChannel(channel): permitted is the answer of
\* permissions.has(requiredPermissions), false also when there are no
\* permissions or the lookup throws
canRespondToChannel(kind, permitted) ==
  IF kind = "dm" THEN TRUE ELSE permitted
AuthorIsBot(author) ==
  author \in ExternalBots \/ (author \in Accounts /\ AccountType(author) = "bot")

Message(c, author, mentioned, forceImage) ==
  [channel |-> c, author |-> author, authorBot |-> AuthorIsBot(author),
   isMentioned |-> mentioned, containsAccountName |-> FALSE,
   question |-> FALSE, exclamation |-> FALSE, emotionWord |-> FALSE,
   long |-> FALSE, urgentWord |-> FALSE,
   forceImage |-> forceImage, instantResponse |-> FALSE]
NoMessage == Message("", "", FALSE, FALSE)

checkDebugCheats(m) ==
  [forceImage |-> m.forceImage, instantResponse |-> m.instantResponse]

isMessageUrgent(m, isMentioned) == isMentioned \/ m.question \/ m.urgentWord

\* ------------------------------------------------------------------------
\* Probability Model.  Probabilities and Math.random() are integers in
\* units of 1 / PROBABILITY_UNIT.
\* ------------------------------------------------------------------------
\* A variant whose second segment starts one point below the end of the first
BaseResponseChance_jump(interactionRate) ==
  IF interactionRate <= 20 THEN interactionRate * 25
  ELSE IF interactionRate <= 40 THEN 400 + (interactionRate - 20) * 50
  ELSE IF interactionRate <= 60 THEN 1500 + (interactionRate - 40) * 75
  ELSE IF interactionRate <= 80 THEN 3000 + (interactionRate - 60) * 100
  ELSE 5000 + (interactionRate - 80) * 100

BaseResponseChance(interactionRate) ==
  IF interactionRate <= 20 THEN interactionRate * 25
  ELSE IF interactionRate <= 40 THEN 500 + (interactionRate - 20) * 50
  ELSE IF interactionRate <= 60 THEN 1500 + (interactionRate - 40) * 75
  ELSE IF interactionRate <= 80 THEN 3000 + (interactionRate - 60) * 100
  ELSE 5000 + (interactionRate - 80) * 100

\* A variant without the cap
UnifiedResponseChance_uncapped(m, interactionRate) ==
  LET containsEmotions == m.exclamation \/ m.question \/ m.emotionWord
  IN BaseResponseChance(interactionRate)
       * (IF m.question THEN 18 ELSE 10)
       * (IF m.long THEN 13 ELSE 10)
       * (IF containsEmotions THEN 14 ELSE 10)
       * (IF m.exclamation /\ ~m.question THEN 12 ELSE 10)

UnifiedResponseChance(m, interactionRate) ==
  LET containsEmotions == m.exclamation \/ m.question \/ m.emotionWord
      boosted == BaseResponseChance(interactionRate)
                 * (IF m.question THEN 18 ELSE 10)
                 * (IF m.long THEN 13 ELSE 10)
                 * (IF containsEmotions THEN 14 ELSE 10)
                 * (IF m.exclamation /\ ~m.question THEN 12 ELSE 10)
  IN Min2(boosted, (PROBABILITY_UNIT \div 10) * 8)

\* The legacy rule of user accounts; frequency and behaviour are "" when unset
LegacyResponseChance(m, cfg) ==
  LET base == IF cfg.messageFrequency = "high" THEN 30
              ELSE IF cfg.messageFrequency = "medium" THEN 15
              ELSE IF cfg.messageFrequency = "low" THEN 5 ELSE 10
      behaved == base * (IF cfg.messageBehavior = "aggressive" THEN 15
                         ELSE IF cfg.messageBehavior = "passive" THEN 5 ELSE 10)
      capped == Min2(behaved, 500)
      containsEmotions == m.exclamation \/ m.question \/ m.emotionWord
  IN capped * (IF m.long THEN 12 ELSE 10) * (IF containsEmotions THEN 13 ELSE 10)
       * (PROBABILITY_UNIT \div 100000)

LegacyQuestionChance(cfg) ==
  (IF cfg.messageBehavior = "aggressive" THEN 7
   ELSE IF cfg.messageBehavior = "passive" THEN 2 ELSE 4) * (PROBABILITY_UNIT \div 10)

shouldLegacyUserAccountRespond(m, cfg, isMentioned, containsAccountName, draw1, draw2) ==
  IF isMentioned \/ containsAccountName THEN TRUE
  ELSE IF m.question /\ draw1 < LegacyQuestionChance(cfg) THEN TRUE
  ELSE draw2 < LegacyResponseChance(m, cfg)

\* A variant that lets addressed messages go through the draw as well
shouldAccountRespond_drawn(m, cfg, isMentioned, containsAccountName, draw1, draw2) ==
  IF cfg.interactionRate = 0 /\ cfg.accountType = "bot" THEN isMentioned
  ELSE IF cfg.interactionRate = 0 /\ cfg.accountType = "user"
  THEN shouldLegacyUserAccountRespond(m, cfg, isMentioned, containsAccountName,
                                      draw1, draw2)
  ELSE draw1 < UnifiedResponseChance(m, cfg.interactionRate)

\* A variant without the mention-only rule of bot accounts
shouldAccountRespond_legacyBots(m, cfg, isMentioned, containsAccountName, draw1, draw2) ==
  IF isMentioned \/ containsAccountName THEN TRUE
  ELSE IF cfg.interactionRate = 0
  THEN shouldLegacyUserAccountRespond(m, cfg, isMentioned, containsAccountName,
                                      draw1, draw2)
  ELSE draw1 < UnifiedResponseChance(m, cfg.interactionRate)

\* interactionRate is 1..100 or undefined (index.ts 33-39, 117-123);
\* undefined is written 0
shouldAccountRespond(m, cfg, isMentioned, containsAccountName, draw1, draw2) ==
  IF isMentioned \/ containsAccountName THEN TRUE
  ELSE IF cfg.interactionRate = 0 /\ cfg.accountType = "bot" THEN FALSE
  ELSE IF cfg.interactionRate = 0 /\ cfg.accountType = "user"
  THEN shouldLegacyUserAccountRespond(m, cfg, isMentioned, containsAccountName,
                                      draw1, draw2)
  ELSE draw1 < UnifiedResponseChance(m, cfg.interactionRate)

\* Observer of one call of shouldAccountRespond: the configuration, what the
\* text holds, the draws, the branch taken, the probability the draw was
\* compared with and the result
NoChance ==
  [evaluated |-> FALSE, cfg |-> Config("", 0, NoReddit), msg |-> NoMessage,
   draw1 |-> 0, draw2 |-> 0, path |-> "", probability |-> 0, questionChance |-> 0,
   responded |-> FALSE]

ObserveChance(m, cfg, draw1, draw2) ==
  LET addressed == m.isMentioned \/ m.containsAccountName
      absent == cfg.interactionRate = 0
      path == IF addressed THEN "addressed"
              ELSE IF absent /\ cfg.accountType = "bot" THEN "mentionOnly"
              ELSE IF absent /\ cfg.accountType = "user" THEN "legacy"
              ELSE "unified"
  IN [evaluated |-> TRUE, cfg |-> cfg, msg |-> m, draw1 |-> draw1, draw2 |-> draw2,
      path |-> path,
      probability |-> IF path = "unified" THEN UnifiedResponseChance(m, cfg.interactionRate)
                      ELSE IF path = "legacy" THEN LegacyResponseChance(m, cfg)
                      ELSE 0,
      questionChance |-> IF path = "legacy" /\ m.question THEN LegacyQuestionChance(cfg)
                         ELSE 0,
      responded |-> shouldAccountRespond(m, cfg, m.isMentioned, m.containsAccountName,
                                         draw1, draw2)]

\* ------------------------------------------------------------------------
\* Timing Model.  Math.random() is r / RandDen.
\* ------------------------------------------------------------------------
\* Math.floor(x * 0.7), Math.floor(x * 0.8), Math.floor(x * 0.9) in double
\* arithmetic for the values the ranges take (180 * 0.7 is 125.99999999999999)
FloorTenths(x, tenths) ==
  IF x = 180 /\ tenths = 7 THEN 125 ELSE (x * tenths) \div 10

\* A variant whose upper boundaries are inclusive
BaseDelayRange_inclusive(ms) ==
  IF ms <= 60000 THEN <<3, 25>>
  ELSE IF ms <= 10 * 60000 THEN <<15, 120>>
  ELSE IF ms <= 30 * 60000 THEN <<30, 240>>
  ELSE IF ms <= 120 * 60000 THEN <<60, 480>>
  ELSE <<180, 900>>

BaseDelayRange(ms) ==
  IF ms < 60000 THEN <<3, 25>>
  ELSE IF ms < 10 * 60000 THEN <<15, 120>>
  ELSE IF ms < 30 * 60000 THEN <<30, 240>>
  ELSE IF ms < 120 * 60000 THEN <<60, 480>>
  ELSE <<180, 900>>

DelayRange(timeSinceLastMs, isDM, isUrgent) ==
  LET base == BaseDelayRange(Max2(0, timeSinceLastMs))
      dm == IF isDM
            THEN <<Max2(2, FloorTenths(base[1], 7)), FloorTenths(base[2], 8)>>
            ELSE base
  IN IF isUrgent
     THEN <<Max2(2, FloorTenths(dm[1], 8)), FloorTenths(dm[2], 9)>>
     ELSE dm

\* A variant without the lower limits: no Math.max(2, ...) on the range and
\* no clamp of the result
calculateRealisticDelay_raw(timeSinceLastMs, isDM, isUrgent, r) ==
  LET base == BaseDelayRange(Max2(0, timeSinceLastMs))
      dm == IF isDM THEN <<FloorTenths(base[1], 7), FloorTenths(base[2], 8)>> ELSE base
      range == IF isUrgent THEN <<FloorTenths(dm[1], 8), FloorTenths(dm[2], 9)>> ELSE dm
  IN (RandomFloor(r, range[2] - range[1] + 1) + range[1]) * 1000

calculateRealisticDelay(timeSinceLastMs, isDM, isUrgent, r) ==
  LET range == DelayRange(timeSinceLastMs, isDM, isUrgent)
      randomDelay == RandomFloor(r, range[2] - range[1] + 1) + range[1]
  IN Min2(Max2(randomDelay * 1000, MIN_RESPONSE_DELAY_MS), MAX_RESPONSE_DELAY_MS)

\* A variant that takes the percentages for whole numbers (20 to 60)
calculateTypingDelay_percent(totalDelayMs, r) ==
  (totalDelayMs * (20 * RandDen + 40 * r)) \div (10 * RandDen)

\* Math.floor(total * (0.2 + Math.random() * (0.6 - 0.2))); with the largest
\* Math.random() the factor stays below 0.6
calculateTypingDelay(totalDelayMs, r) ==
  IF r >= RandDen THEN (totalDelayMs * 6 - 1) \div 10
  ELSE (totalDelayMs * (2 * RandDen + 4 * r)) \div (10 * RandDen)

\* ------------------------------------------------------------------------
\* Interaction Ledger
\* ------------------------------------------------------------------------
getInteractionKey(channelId, userId, botId) == <<channelId, userId, botId>>

\* A variant whose sweep resets the old entries instead of deleting them
updateLastInteractionTime_reset(ledger, channelId, userId, botId, t) ==
  LET written == MapSet(ledger, getInteractionKey(channelId, userId, botId), t)
  IN IF MapSize(written) > INTERACTION_TRACKING_CLEANUP_THRESHOLD
     THEN [k \in DOMAIN written |->
             IF written[k] < t - INTERACTION_TRACKING_RETENTION_MS THEN 0
             ELSE written[k]]
     ELSE written

\* A variant that sweeps at every write, whatever the size of the ledger
updateLastInteractionTime_always(ledger, channelId, userId, botId, t) ==
  LET written == MapSet(ledger, getInteractionKey(channelId, userId, botId), t)
  IN MapDelete(written, {k \in DOMAIN written :
                  written[k] < t - INTERACTION_TRACKING_RETENTION_MS})

\* lines 421-435: the write of the entry, then the sweep
updateLastInteractionTime(ledger, channelId, userId, botId, t) ==
  LET written == MapSet(ledger, getInteractionKey(channelId, userId, botId), t)
  IN IF MapSize(written) > INTERACTION_TRACKING_CLEANUP_THRESHOLD
     THEN MapDelete(written, {k \in DOMAIN written :
                       written[k] < t - INTERACTION_TRACKING_RETENTION_MS})
     ELSE written

TimeSinceLastInteraction(ledger, channelId, userId, botId, t) ==
  LET key == getInteractionKey(channelId, userId, botId)
  IN IF MapHas(ledger, key) /\ ledger[key] # 0 THEN t - ledger[key]
     ELSE FIRST_INTERACTION_MS

\* ------------------------------------------------------------------------
\* Recency Cache: [id, ...recentlySentIds].slice(0, RECENTLY_SENT_IMAGE_CACHE_SIZE)
\* ------------------------------------------------------------------------
Includes(seq, x) == \E i \in 1..Len(seq) : seq[i] = x
\* A variant without the slice
PushFront_unbounded(id, recentlySentIds) == <<id>> \o recentlySentIds

\* lines 534 and 550: [image.id, ...recentlySentIds].slice(0, RECENTLY_SENT_IMAGE_CACHE_SIZE)
PushFront(id, recentlySentIds) ==
  SubSeq(<<id>> \o recentlySentIds, 1,
         Min2(Len(recentlySentIds) + 1, RECENTLY_SENT_IMAGE_CACHE_SIZE))
CacheGet(cache, channelId) == IF MapHas(cache, channelId) THEN cache[channelId] ELSE <<>>

\* A variant that gives up after the last attempt of the loop
getUnseenRandomRedditImage_nofinal(recentlySentIds, attempt, image) ==
  IF image # None /\ ~Includes(recentlySentIds, image) THEN "found"
  ELSE IF attempt >= MAX_UNIQUE_IMAGE_FETCH_ATTEMPTS - 1 THEN "none"
  ELSE "retry"

\* getUnseenRandomRedditImage when getRandomRedditImage returns image to call
\* number attempt + 1 (the loop makes the calls 1 to
\* MAX_UNIQUE_IMAGE_FETCH_ATTEMPTS, the call after them is the final one):
\* found (cache written, image returned), none (null returned) or retry
getUnseenRandomRedditImage(recentlySentIds, attempt, image) ==
  LET final == attempt >= MAX_UNIQUE_IMAGE_FETCH_ATTEMPTS
  IN IF image # None /\ (final \/ ~Includes(recentlySentIds, image)) THEN "found"
     ELSE IF final THEN "none"
     ELSE "retry"

\* ------------------------------------------------------------------------
\* Observer of the replies and of the ledger (it does not influence the
\* program):
\*   items  per channel, the media items sent with a reply
\*   keys   the ledger keys for which a reply has been sent
\*   high   per ledger key, the highest timestamp ever stored
\*   gone   the ledger keys that a sweep has evicted
\* ------------------------------------------------------------------------
InitReplyObs ==
  [items |-> [c \in Channels |-> {}], keys |-> {}, high |-> EmptyMap, gone |-> {}]

ObserveSend(o, c, author, account, attachment) ==
  [o EXCEPT !.items = [@ EXCEPT ![c] = IF attachment \in Items
                                       THEN @ \cup {attachment} ELSE @],
            !.keys = @ \cup {getInteractionKey(c, author, account)}]

ObserveLedger(o, before, after) ==
  [o EXCEPT !.high = [k \in DOMAIN @ \cup DOMAIN after |->
                        IF ~MapHas(after, k) THEN @[k]
                        ELSE IF ~MapHas(@, k) THEN after[k]
                        ELSE Max2(@[k], after[k])],
            !.gone = @ \cup (DOMAIN before \ DOMAIN after)]

\* An invocation of the messageCreate handler: its position, its locals and
\* what it has done so far
IdleHandler ==
  [pc |-> "idle", account |-> "", msg |-> NoMessage, rateLimited |-> FALSE, typingShown |-> FALSE,
   permitted |-> FALSE, canRespond |-> FALSE,
   computedDelayMs |-> 0, waitedMs |-> 0,
   responseDelayMs |-> 0, typingDelayMs |-> 0, typingTimeout |-> "null",
   recentlySentIds |-> <<>>, attempt |-> 0, attachment |-> None,
   fetchCalls |-> 0, fetchSame |-> "", fetchLast |-> "", fetchResult |-> "",
   fetchChannel |-> "", overlap |-> {},
   sentReply |-> FALSE, sentFallback |-> FALSE, fallbackTries |-> 0,
   outcome |-> ""]

\* The result slot of the Timing Model when it is evaluated on its own
NoTiming ==
  [evaluated |-> FALSE, timeSinceLastMs |-> 0, isDM |-> FALSE, isUrgent |-> FALSE,
   r |-> 0, rTyping |-> 0, responseDelayMs |-> 0, typingDelayMs |-> 0]

\* The guard without eviction has seen nothing yet
NoShadow == [chains |-> EmptyMap, kind |-> "none", ch |-> "", id |-> "",
             allowed |-> FALSE, shadowAllowed |-> FALSE]
\* src/src/index.ts, lines 52-60 and 132-140: the media configuration loaded
\* from REDDIT_MIN_MESSAGES_n and REDDIT_MAX_MESSAGES_n when both parse as
\* numbers (the subreddit list is set)
loadRedditConfig(minRaw, maxRaw) ==
  [present |-> TRUE, subreddits |-> 1,
   minMessages |-> Max2(1, minRaw),
   maxMessages |-> Max2(minRaw, maxRaw)]

NoLoaded == [evaluated |-> FALSE, accountType |-> "", minRaw |-> 0, maxRaw |-> 0,
             redditConfig |-> NoReddit]
\* redditAPI.ts line 15: no request yet; starts lists the instants at which
\* the requests that have passed enforceRateLimit were started
NoRateLimit ==
  [lastRedditRequestTime |-> 0,
   callers |-> [c \in Handlers |-> [pc |-> "idle", wakeAt |-> 0]],
   starts |-> <<>>,
   calls |-> 0]

\* redditAPI.ts lines 39-41: before the call; responses lists what Reddit
\* answered to each request, errors what retryWithBackoff caught
NoRetry ==
  [pc |-> "idle", attempt |-> 0, attempts |-> 0, waitTime |-> 0, waitedMs |-> 0,
   responses |-> <<>>, errors |-> <<>>, lastError |-> [thrown |-> FALSE]]

InitLoad ==
  /\ loaded = NoLoaded
  /\ rateLimit = NoRateLimit
  /\ retry = NoRetry

InitExtra ==
  /\ shadowGuard = NoShadow
  /\ InitLoad

\* ------------------------------------------------------------------------
\* Initial state: the module has just been loaded, every map is empty
\* ------------------------------------------------------------------------
InitState ==
  /\ accountToAccountChains = EmptyMap
  /\ channelMessageTrackers = EmptyMap
  /\ recentlySentRedditImagesByChannel = EmptyMap
  /\ cadenceSteps = 0
  /\ cadenceObs = InitCadenceObs
  /\ handlers = [h \in Handlers |-> IdleHandler]
  /\ msgCount = 0
  /\ now = StartClock
  /\ ticks = 0
  /\ guardSteps = 0
  /\ guardObs = InitGuardObs
  /\ dmConversationCounts = EmptyMap
  /\ ledgerSteps = 0
  /\ chance = NoChance
  /\ InitExtra

InitMaps ==
  /\ InitState
  /\ timing = NoTiming
  /\ lastInteractionTimes = EmptyMap
  /\ replyObs = InitReplyObs

Init ==
  /\ InitMaps
  /\ accountConfigs = DefaultConfigs

\* Time passes
Tick(steps) ==
  /\ ticks < MaxTicks
  /\ \E d \in steps : now' = now + d
  /\ ticks' = ticks + 1
  /\ UNCHANGED <<configVars, dmVars, obsVars, timingVars, guardVars, cadenceVars, handlerVars>>

\* ------------------------------------------------------------------------
\* The Chain Guard on its own: candidate replies and human messages
\* ------------------------------------------------------------------------
GuardCandidate ==
  /\ guardSteps < MaxGuardSteps
  /\ \E c \in GuildChannels, id \in Accounts :
       LET r == shouldAllowAccountResponse(accountToAccountChains, c, id, now)
       IN /\ accountToAccountChains' = r.chains
          /\ guardObs' = ObserveCandidate(guardObs, c, id, r.allowed, now)
  /\ guardSteps' = guardSteps + 1
  /\ UNCHANGED <<configVars, dmVars, obsVars, timingVars, cadenceVars, clockVars, handlerVars>>

GuardHuman ==
  /\ guardSteps < MaxGuardSteps
  /\ \E c \in GuildChannels :
       /\ accountToAccountChains' = resetChain(accountToAccountChains, c)
       /\ guardObs' = ObserveHuman(guardObs, c, now)
  /\ guardSteps' = guardSteps + 1
  /\ UNCHANGED <<configVars, dmVars, obsVars, timingVars, cadenceVars, clockVars, handlerVars>>

NextGuard == GuardCandidate \/ GuardHuman \/ Tick(TickSteps)
SpecGuard == Init /\ [][NextGuard]_vars

\* ------------------------------------------------------------------------
\* The Chain Guard when its map is full: CHAIN_CLEANUP_THRESHOLD channels
\* hold an entry, of which channel "1" holds a full chain of bot1 that is
\* older than twice the inactivity window and channel "2" a full chain of
\* bot1 that has just been written; candidate replies and human messages in
\* these two channels and in g1, which has no entry yet.  Every event is
\* also given to a guard that never evicts.
\* ------------------------------------------------------------------------
FilledChannels == {ToString(i) : i \in 1..CHAIN_CLEANUP_THRESHOLD}
FullChains ==
  [k \in FilledChannels |->
     IF k = "1"
     THEN [chainCount |-> MAX_BOT_CHAIN, lastAccountId |-> "bot1",
           lastActivity |-> StartClock - 2 * BOT_CHAIN_INACTIVITY_RESET_MS - 1]
     ELSE IF k = "2"
     THEN [chainCount |-> MAX_BOT_CHAIN, lastAccountId |-> "bot1",
           lastActivity |-> StartClock]
     ELSE [chainCount |-> 1, lastAccountId |-> "user1", lastActivity |-> StartClock]]
EvictionChannels == {"g1", "1", "2"}
EvictionTicks == {2 * BOT_CHAIN_INACTIVITY_RESET_MS}

InitEviction ==
  /\ accountConfigs = DefaultConfigs
  /\ accountToAccountChains = FullChains
  /\ shadowGuard = [NoShadow EXCEPT !.chains = FullChains]
  /\ InitLoad
  /\ channelMessageTrackers = EmptyMap
  /\ recentlySentRedditImagesByChannel = EmptyMap
  /\ lastInteractionTimes = EmptyMap
  /\ replyObs = InitReplyObs
  /\ cadenceSteps = 0
  /\ cadenceObs = InitCadenceObs
  /\ handlers = [h \in Handlers |-> IdleHandler]
  /\ msgCount = 0
  /\ now = StartClock
  /\ ticks = 0
  /\ guardSteps = 0
  /\ guardObs = InitGuardObs
  /\ dmConversationCounts = EmptyMap
  /\ ledgerSteps = 0
  /\ chance = NoChance
  /\ timing = NoTiming

EvictionCandidate ==
  /\ guardSteps < MaxEvictionSteps
  /\ \E c \in EvictionChannels, id \in Accounts :
       LET r == shouldAllowAccountResponse(accountToAccountChains, c, id, now)
           sh == GuardWithoutEviction(shadowGuard.chains, c, id, now)
       IN /\ accountToAccountChains' = r.chains
          /\ shadowGuard' = [chains |-> sh.chains, kind |-> "call", ch |-> c, id |-> id,
                             allowed |-> r.allowed, shadowAllowed |-> sh.allowed]
  /\ guardSteps' = guardSteps + 1
  /\ UNCHANGED <<configVars, dmVars, obsVars, ledgerSteps, timing, chance, loaded, rateLimit, retry,
                 guardObs,
                 cadenceVars, clockVars, handlerVars>>

EvictionHuman ==
  /\ guardSteps < MaxEvictionSteps
  /\ \E c \in EvictionChannels :
       /\ accountToAccountChains' = resetChain(accountToAccountChains, c)
       /\ shadowGuard' = [NoShadow EXCEPT !.chains = resetChain(shadowGuard.chains, c),
                                          !.kind = "human", !.ch = c]
  /\ guardSteps' = guardSteps + 1
  /\ UNCHANGED <<configVars, dmVars, obsVars, ledgerSteps, timing, chance, loaded, rateLimit, retry,
                 guardObs,
                 cadenceVars, clockVars, handlerVars>>

NextEviction == EvictionCandidate \/ EvictionHuman \/ Tick(EvictionTicks)
SpecEviction == InitEviction /\ [][NextEviction]_vars

\* ------------------------------------------------------------------------
\* The Media Cadence on its own: evaluations by accounts whose intervals are
\* drawn at start
\* ------------------------------------------------------------------------
InitCadence ==
  /\ InitMaps
  /\ accountConfigs \in {cfgs \in [Accounts -> {Config(a, 50, rc) :
                                      a \in Accounts, rc \in CadenceIntervals \cup {NoReddit}}] :
                           \A a \in Accounts : cfgs[a].id = a}

CadenceEval ==
  /\ cadenceSteps < MaxCadenceSteps
  /\ \E c \in GuildChannels, id \in Accounts, forceImage \in BOOLEAN, r \in 0..(RandDen - 1) :
       LET res == shouldAttachRedditImage(channelMessageTrackers,
                     recentlySentRedditImagesByChannel, c, accountConfigs[id],
                     forceImage, now, r)
       IN /\ channelMessageTrackers' = res.trackers
          /\ recentlySentRedditImagesByChannel' = res.cache
          /\ cadenceObs' = ObserveCadence(cadenceObs, channelMessageTrackers, c, id,
                                           accountConfigs[id], forceImage, res.attach)
  /\ cadenceSteps' = cadenceSteps + 1
  /\ UNCHANGED <<configVars, dmVars, obsVars, timingVars, guardVars, clockVars, handlerVars>>

NextCadence == CadenceEval
SpecCadence == InitCadence /\ [][NextCadence]_vars

\* ------------------------------------------------------------------------
\* The Interaction Ledger on its own: writes of updateLastInteractionTime
\* for a few keys while time passes, starting from a ledger that already
\* holds INTERACTION_TRACKING_CLEANUP_THRESHOLD entries of other pairs, so
\* that the sweep runs
\* ------------------------------------------------------------------------
OtherUsers == {ToString(u) : u \in 1..INTERACTION_TRACKING_CLEANUP_THRESHOLD}
FullLedger == [k \in {getInteractionKey("g1", u, "bot1") : u \in OtherUsers} |-> StartClock]
LedgerChannels == {"g1"}
LedgerTicks == {1, INTERACTION_TRACKING_RETENTION_MS + 1}

InitLedger ==
  /\ InitState
  /\ timing = NoTiming
  /\ accountConfigs = DefaultConfigs
  /\ lastInteractionTimes = FullLedger
  /\ replyObs = ObserveLedger(InitReplyObs, EmptyMap, FullLedger)

LedgerWrite ==
  /\ ledgerSteps < MaxLedgerSteps
  /\ \E c \in LedgerChannels, u \in Humans \cup ExternalBots, a \in ReplyAccounts :
       LET ledger == updateLastInteractionTime(lastInteractionTimes, c, u, a, now)
       IN /\ lastInteractionTimes' = ledger
          /\ replyObs' = ObserveLedger(replyObs, lastInteractionTimes, ledger)
  /\ ledgerSteps' = ledgerSteps + 1
  /\ UNCHANGED <<configVars, dmVars, timing, chance, extraVars, guardVars, cadenceVars, clockVars,
                 handlers, msgCount>>

NextLedger == LedgerWrite \/ Tick(LedgerTicks)
SpecLedger == InitLedger /\ [][NextLedger]_vars

\* ------------------------------------------------------------------------
\* The Probability Model on its own: one call of shouldAccountRespond for
\* every configuration the loader can produce (interaction rate 1..100 or
\* absent, written 0; bot or user; for a user without rate every frequency
\* and behaviour tier or none), every combination of what the text holds,
\* addressed or not, and the smallest and the largest random draws
\* ------------------------------------------------------------------------
Texts ==
  {[Message("g1", author, mentioned, FALSE) EXCEPT
      !.containsAccountName = named, !.question = q, !.exclamation = e,
      !.emotionWord = w, !.long = l] :
     author \in Humans, mentioned \in BOOLEAN, named \in BOOLEAN,
     q \in BOOLEAN, e \in BOOLEAN, w \in BOOLEAN, l \in BOOLEAN}
FrequencyTiers == {"", "low", "medium", "high"}
BehaviorTiers == {"", "normal", "aggressive", "passive"}
LoadedConfigs ==
  {Config(a, rate, NoReddit) : a \in Accounts, rate \in 0..MAX_INTERACTION_RATE}
    \cup {[Config("user1", 0, NoReddit) EXCEPT !.messageFrequency = f,
                                               !.messageBehavior = b] :
            f \in FrequencyTiers, b \in BehaviorTiers}
ExtremeDraws == {0, PROBABILITY_UNIT - 1}

ProbabilityEval ==
  /\ ~chance.evaluated
  /\ \E m \in Texts, cfg \in LoadedConfigs, draw1 \in ExtremeDraws, draw2 \in ExtremeDraws :
       chance' = ObserveChance(m, cfg, draw1, draw2)
  /\ UNCHANGED <<configVars, dmVars, obsVars, ledgerSteps, timing, extraVars, guardVars,
                 cadenceVars, clockVars, handlerVars>>

NextProbability == ProbabilityEval
SpecProbability == Init /\ [][NextProbability]_vars

\* ------------------------------------------------------------------------
\* The configuration loader on its own: loadUserConfigs and loadBotConfigs
\* read a pair of whole numbers, negative ones and 0 included
\* ------------------------------------------------------------------------
EnvValues == (0 - MaxEnvValue)..MaxEnvValue

LoadEval ==
  /\ ~loaded.evaluated
  /\ \E kind \in {"user", "bot"}, minRaw \in EnvValues, maxRaw \in EnvValues :
       loaded' = [evaluated |-> TRUE, accountType |-> kind,
                  minRaw |-> minRaw, maxRaw |-> maxRaw,
                  redditConfig |-> loadRedditConfig(minRaw, maxRaw)]
  /\ UNCHANGED <<configVars, dmVars, obsVars, ledgerSteps, timing, chance, shadowGuard, rateLimit, retry,
                 guardVars, cadenceVars, clockVars, handlerVars>>

NextLoad == LoadEval
SpecLoad == Init /\ [][NextLoad]_vars

\* ------------------------------------------------------------------------
\* The rate limit of the Reddit requests: concurrent callers of
\* enforceRateLimit (fetchSubredditImages of several accounts, the
\* validation of subreddits); a caller that has to wait sets a timer and
\* continues when it has fired
\* ------------------------------------------------------------------------
RateTicks == {REDDIT_API_RATE_LIMIT_MS \div 10, REDDIT_API_RATE_LIMIT_MS}

\* redditAPI.ts lines 21-27 and, when no wait is needed, line 29
EnforceStart(c) ==
  /\ rateLimit.callers[c].pc = "idle"
  /\ rateLimit.calls < MaxRedditCalls
  /\ LET timeSinceLastRequest == now - rateLimit.lastRedditRequestTime
     IN rateLimit' =
          IF timeSinceLastRequest < REDDIT_API_RATE_LIMIT_MS
          THEN [rateLimit EXCEPT
                  !.calls = @ + 1,
                  !.callers[c] =
                     [pc |-> "waiting",
                      wakeAt |-> now + (REDDIT_API_RATE_LIMIT_MS - timeSinceLastRequest)]]
          ELSE [rateLimit EXCEPT
                  !.calls = @ + 1,
                  !.lastRedditRequestTime = now,
                  !.starts = Append(@, now)]
  /\ UNCHANGED <<configVars, dmVars, obsVars, ledgerSteps, timing, chance, shadowGuard,
                 loaded, retry, guardVars, cadenceVars, clockVars, handlerVars>>

\* redditAPI.ts lines 26 and 29: the timer has fired, the caller goes on
EnforceWake(c) ==
  /\ rateLimit.callers[c].pc = "waiting"
  /\ now >= rateLimit.callers[c].wakeAt
  /\ rateLimit' = [rateLimit EXCEPT
                     !.callers[c] = [pc |-> "idle", wakeAt |-> 0],
                     !.lastRedditRequestTime = now,
                     !.starts = Append(@, now)]
  /\ UNCHANGED <<configVars, dmVars, obsVars, ledgerSteps, timing, chance, shadowGuard,
                 loaded, retry, guardVars, cadenceVars, clockVars, handlerVars>>

NextRateLimit ==
  \/ \E c \in Handlers : EnforceStart(c)
  \/ \E c \in Handlers : EnforceWake(c)
  \/ Tick(RateTicks)
SpecRateLimit == Init /\ [][NextRateLimit]_vars

\* ------------------------------------------------------------------------
\* retryWithBackoff around the request of fetchSubredditImages: what Reddit
\* answers to each request is an input
\* ------------------------------------------------------------------------
RedditResponses == {"ok", "http404", "http403", "http429", "http500", "network"}

HttpStatus(response) ==
  CASE response = "http404" -> 404
    [] response = "http403" -> 403
    [] response = "http429" -> 429
    [] response = "http500" -> 500
    [] OTHER -> 0

\* redditAPI.ts lines 92-102: axios.get resolves, or rejects with an
\* AxiosError that carries the status of the response (none when the
\* request got no response)
axiosGet(response) ==
  IF response = "ok"
  THEN [thrown |-> FALSE]
  ELSE [thrown |-> TRUE, isAxiosError |-> TRUE, status |-> HttpStatus(response)]

\* redditAPI.ts lines 77-150: the function handed to retryWithBackoff; its
\* catch block logs the error and throws a new Error in its place
fetchAttempt(response) ==
  LET r == axiosGet(response)
  IN IF r.thrown
     THEN [thrown |-> TRUE, isAxiosError |-> FALSE, status |-> 0]
     ELSE r

\* redditAPI.ts line 48
isNotFound(error) == error.isAxiosError /\ error.status = 404

RECURSIVE Pow2(_)
Pow2(n) == IF n = 0 THEN 1 ELSE 2 * Pow2(n - 1)

\* redditAPI.ts line 74 done, line 76: the call of retryWithBackoff
RetryStart ==
  /\ retry.pc = "idle"
  /\ retry' = [retry EXCEPT !.pc = IF 0 < REDDIT_MAX_RETRIES THEN "attempt" ELSE "thrown"]
  /\ UNCHANGED <<configVars, dmVars, obsVars, ledgerSteps, timing, chance, shadowGuard,
                 loaded, rateLimit, guardVars, cadenceVars, clockVars, handlerVars>>

\* redditAPI.ts lines 42-55: one pass of the loop up to the return, the
\* throw or the start of the timer
RetryAttempt(response) ==
  /\ retry.pc = "attempt"
  /\ LET r == fetchAttempt(response)
         R == [retry EXCEPT !.attempts = @ + 1, !.responses = Append(@, response)]
     IN retry' =
          IF ~r.thrown
          THEN [R EXCEPT !.pc = "returned"]
          ELSE LET E == [R EXCEPT !.lastError = r, !.errors = Append(@, r)]
               IN IF isNotFound(r)
                  THEN [E EXCEPT !.pc = "thrown"]
                  ELSE [E EXCEPT !.pc = "backoff",
                                 !.waitTime = REDDIT_RETRY_DELAY_MS * Pow2(retry.attempt)]
  /\ UNCHANGED <<configVars, dmVars, obsVars, ledgerSteps, timing, chance, shadowGuard,
                 loaded, rateLimit, guardVars, cadenceVars, clockVars, handlerVars>>

\* redditAPI.ts lines 55, 41 and 59: the timer has fired; the next pass of
\* the loop, or throw lastError when the attempts are used up
BackoffElapsed ==
  /\ retry.pc = "backoff"
  /\ retry' = [retry EXCEPT
                 !.waitedMs = @ + retry.waitTime,
                 !.waitTime = 0,
                 !.attempt = @ + 1,
                 !.pc = IF retry.attempt + 1 < REDDIT_MAX_RETRIES THEN "attempt" ELSE "thrown"]
  /\ UNCHANGED <<configVars, dmVars, obsVars, ledgerSteps, timing, chance, shadowGuard,
                 loaded, rateLimit, guardVars, cadenceVars, clockVars, handlerVars>>

NextRetry ==
  \/ RetryStart
  \/ \E response \in RedditResponses : RetryAttempt(response)
  \/ BackoffElapsed
SpecRetry == Init /\ [][NextRetry]_vars

\* ------------------------------------------------------------------------
\* The timing functions on their own: calculateRealisticDelay and
\* calculateTypingDelay for elapsed times on both sides of every threshold
\* (negative, 0, 1, 10, 30 and 120 minutes, one and two days), with and
\* without the direct-message and the urgency adjustment, for the smallest,
\* the largest and the intermediate random draws
\* ------------------------------------------------------------------------
MinuteMs == 60 * 1000
ElapsedTimes ==
  {0 - 1, 0, 1 * MinuteMs - 1, 1 * MinuteMs, 10 * MinuteMs - 1, 10 * MinuteMs,
   30 * MinuteMs - 1, 30 * MinuteMs, 120 * MinuteMs - 1, 120 * MinuteMs,
   INTERACTION_TRACKING_RETENTION_MS, 2 * INTERACTION_TRACKING_RETENTION_MS}

InitTiming ==
  /\ InitState
  /\ accountConfigs = DefaultConfigs
  /\ lastInteractionTimes = EmptyMap
  /\ replyObs = InitReplyObs
  /\ timing \in {[NoTiming EXCEPT !.timeSinceLastMs = e, !.isDM = d, !.isUrgent = u,
                                  !.r = r1, !.rTyping = r2] :
                   e \in ElapsedTimes, d \in BOOLEAN, u \in BOOLEAN,
                   r1 \in 0..RandDen, r2 \in 0..RandDen}

TimingEval ==
  /\ ~timing.evaluated
  /\ LET responseDelayMs == calculateRealisticDelay(timing.timeSinceLastMs, timing.isDM,
                                                    timing.isUrgent, timing.r)
     IN timing' = [timing EXCEPT !.evaluated = TRUE,
                                 !.responseDelayMs = responseDelayMs,
                                 !.typingDelayMs =
                                    calculateTypingDelay(responseDelayMs, timing.rTyping)]
  /\ UNCHANGED <<configVars, dmVars, obsVars, ledgerSteps, chance, extraVars, guardVars,
                 cadenceVars, clockVars, handlerVars>>

NextTiming == TimingEval
SpecTiming == InitTiming /\ [][NextTiming]_vars

\* ------------------------------------------------------------------------
\* The messageCreate handler (guild channels).  An invocation h runs from
\* one await to the next in one action:
\*   perm        await canRespondToChannel
\*   typingWait  normal timing, typing timer and delay timer both pending
\*   delayWait   normal timing, typing timer fired, delay timer pending
\*   safeWait1   reduced timing, waiting for the typing offset
\*   safeTyping  reduced timing, await sendTyping
\*   safeWait2   reduced timing, waiting for the rest of the 10 s
\*   fetchConv   await ephemeralFetchConversation
\*   infer       await callKindroidAI
\*   media       await getRandomRedditImage inside getUnseenRandomRedditImage
\*   send        await message.reply / channel.send
\*   fallback    await the send of the error message
\* ------------------------------------------------------------------------
CanSend(m) == m.isMentioned \/ ChannelKind(m.channel) \in {"text", "dm"}

\* return or fall out of the handler; the finally block clears the timer and
\* the locals are gone, what remains is what the invocation has done: what
\* it has sent and, if its media fetch ran alongside another one, its result
Finished(H, outcome) ==
  [IdleHandler EXCEPT !.pc = "done", !.outcome = outcome,
                      !.msg = [NoMessage EXCEPT !.channel = H.msg.channel],
                      !.rateLimited = H.rateLimited,
                      !.typingShown = H.typingShown,
                      !.sentReply = H.sentReply, !.sentFallback = H.sentFallback,
                      !.fallbackTries = H.fallbackTries,
                      !.fetchResult = IF H.overlap = {} THEN "" ELSE H.fetchResult,
                      !.fetchChannel = IF H.overlap = {} THEN "" ELSE H.fetchChannel,
                      !.overlap = H.overlap]

\* A variant whose catch block only logs the error
Caught_silent(H) == Finished(H, "error")

\* A variant whose catch block starts the reply over
Caught_restart(H) == [H EXCEPT !.pc = "fetchConv"]

\* the catch block: one error message, sent the way the reply would be
Caught(H) ==
  IF CanSend(H.msg)
  THEN [H EXCEPT !.pc = "fallback", !.typingTimeout = "null",
                 !.computedDelayMs = 0, !.waitedMs = 0,
                 !.responseDelayMs = 0, !.typingDelayMs = 0]
  ELSE Finished(H, "error")

\* A variant that gives up the reply when the media fetch returned nothing
AfterMedia_mediaOnly(H, ledger, t) ==
  IF H.fetchResult = None THEN [h |-> Finished(H, "nomedia"), ledger |-> ledger]
  ELSE IF CanSend(H.msg)
  THEN [h |-> [H EXCEPT !.pc = "send"], ledger |-> ledger]
  ELSE [h |-> Finished(H, "nosend"),
        ledger |-> updateLastInteractionTime(ledger, H.msg.channel, H.msg.author,
                                             H.account, t)]

\* lines 752-772: send the reply, or skip the send and record the interaction
AfterMedia(H, ledger, t) ==
  IF CanSend(H.msg)
  THEN [h |-> [H EXCEPT !.pc = "send"], ledger |-> ledger]
  ELSE [h |-> Finished(H, "nosend"),
        ledger |-> updateLastInteractionTime(ledger, H.msg.channel, H.msg.author,
                                             H.account, t)]

\* A variant that sends direct messages through the guild path
isDirectMessage_never(kind) == FALSE

\* lines 615 and 623: message.channel.type === ChannelType.DM
isDirectMessage(kind) == kind = "dm"

\* lines 827-851: the direct-message counter of the pair, and its sweep
countDirectMessage(counts, accountId, userId, t) ==
  LET dmKey == <<accountId, userId>>
      currentData == IF MapHas(counts, dmKey) THEN counts[dmKey]
                     ELSE [count |-> 0, lastMessageTime |-> 0]
      written == MapSet(counts, dmKey,
                        [count |-> currentData.count + 1, lastMessageTime |-> t])
  IN IF MapSize(written) > DM_CLEANUP_THRESHOLD
     THEN MapDelete(written, {k \in DOMAIN written :
                      written[k].lastMessageTime < t - DM_RETENTION_MS})
     ELSE written

\* A variant that waits the computed delay whatever its length
ScheduleResponse_full(H, timeSinceLastMs, isDM, isUrgent, r1, r2, r3) ==
  LET responseDelayMs == calculateRealisticDelay(timeSinceLastMs, isDM, isUrgent, r1)
  IN [H EXCEPT !.pc = "typingWait", !.canRespond = FALSE, !.permitted = FALSE,
               !.computedDelayMs = responseDelayMs,
               !.responseDelayMs = responseDelayMs,
               !.typingDelayMs = calculateTypingDelay(responseDelayMs, r2),
               !.typingTimeout = "pending"]

\* lines 653-707 and 856-904: the delays of this reply and the start of the
\* wait; above SAFE_DELAY_LIMIT_MS the fixed delay is waited instead and no
\* timer handle is kept
ScheduleResponse(H, timeSinceLastMs, isDM, isUrgent, r1, r2, r3) ==
  LET cheats == checkDebugCheats(H.msg)
      responseDelayMs ==
        IF cheats.instantResponse THEN INSTANT_RESPONSE_DELAY_MS
        ELSE calculateRealisticDelay(timeSinceLastMs, isDM, isUrgent, r1)
      typingDelayMs ==
        IF cheats.instantResponse THEN INSTANT_TYPING_DELAY_MS
        ELSE calculateTypingDelay(responseDelayMs, r2)
  IN IF responseDelayMs > SAFE_DELAY_LIMIT_MS
     THEN [H EXCEPT !.pc = "safeWait1", !.canRespond = FALSE, !.permitted = FALSE,
                    !.computedDelayMs = responseDelayMs,
                    !.responseDelayMs = SAFE_DELAY_MS,
                    !.typingDelayMs = calculateTypingDelay(SAFE_DELAY_MS, r3)]
     ELSE [H EXCEPT !.pc = "typingWait", !.canRespond = FALSE, !.permitted = FALSE,
                    !.computedDelayMs = responseDelayMs,
                    !.responseDelayMs = responseDelayMs,
                    !.typingDelayMs = typingDelayMs,
                    !.typingTimeout = "pending"]

\* a message event is delivered to the client of one account
Receive(h, accounts, messages, permissions, limit) ==
  /\ handlers[h].pc \in {"idle", "done"}
  /\ msgCount < limit
  /\ \E a \in accounts, m \in messages, perm \in permissions :
       handlers' = [handlers EXCEPT ![h] =
                      IF m.author = a
                      THEN Finished([IdleHandler EXCEPT !.account = a, !.msg = m], "self")
                      ELSE [IdleHandler EXCEPT
                              !.pc = "perm", !.account = a, !.msg = m,
                              !.permitted = perm,
                              !.canRespond =
                                 canRespondToChannel(ChannelKind(m.channel), perm)]]
  /\ msgCount' = msgCount + 1
  /\ UNCHANGED <<configVars, dmVars, obsVars, timingVars, guardVars, cadenceVars, clockVars, lastInteractionTimes>>

\* lines 612-707: permission, chain reset, response decision, chain guard, timing
Decide(h, respondDraws, delayDraws, typingDraws) ==
  /\ handlers[h].pc = "perm"
  /\ LET H == handlers[h]
         m == H.msg
         c == m.channel
         cfg == accountConfigs[H.account]
         isDM == isDirectMessage(ChannelKind(c))
         human == ~m.authorBot /\ ~isDM
         chains1 == IF human THEN resetChain(accountToAccountChains, c)
                    ELSE accountToAccountChains
         obs1 == IF human THEN ObserveHuman(guardObs, c, now) ELSE guardObs
         guard == shouldAllowAccountResponse(chains1, c, cfg.id, now)
         since == TimeSinceLastInteraction(lastInteractionTimes, c, m.author, cfg.id, now)
     IN IF ~H.canRespond
        THEN /\ handlers' = [handlers EXCEPT ![h] =
                                 [Finished(H, "denied") EXCEPT !.msg.author = m.author]]
             /\ UNCHANGED <<accountToAccountChains, guardObs, dmConversationCounts>>
        ELSE \E d1 \in respondDraws, d2 \in respondDraws,
                r1 \in delayDraws, r2 \in typingDraws, r3 \in typingDraws :
          IF isDM
          THEN /\ dmConversationCounts' =
                    countDirectMessage(dmConversationCounts, cfg.id, m.author, now)
               /\ handlers' = [handlers EXCEPT ![h] =
                    ScheduleResponse(H, since, TRUE, isMessageUrgent(m, TRUE), r1, r2, r3)]
               /\ UNCHANGED <<accountToAccountChains, guardObs>>
          ELSE IF ~shouldAccountRespond(m, cfg, m.isMentioned, m.containsAccountName, d1, d2)
          THEN /\ handlers' = [handlers EXCEPT ![h] = Finished(H, "ignored")]
               /\ accountToAccountChains' = chains1
               /\ guardObs' = obs1
               /\ UNCHANGED dmConversationCounts
          ELSE
            /\ accountToAccountChains' = guard.chains
            /\ guardObs' = ObserveCandidate(obs1, c, cfg.id, guard.allowed, now)
            /\ UNCHANGED dmConversationCounts
            /\ handlers' = [handlers EXCEPT ![h] =
                 IF ~guard.allowed THEN Finished(H, "blocked")
                 ELSE ScheduleResponse(H, since, FALSE,
                                       isMessageUrgent(m, m.isMentioned), r1, r2, r3)]
  /\ UNCHANGED <<configVars, obsVars, timingVars, guardSteps, cadenceVars, clockVars,
                 lastInteractionTimes, msgCount>>

\* lines 691-703: the typing timer fires (it was set first, so it is also the
\* first of two timers of equal delay); errors of sendTyping are caught there
TypingTimerFires(h) ==
  /\ handlers[h].pc = "typingWait"
  /\ handlers[h].typingDelayMs <= handlers[h].responseDelayMs
  /\ handlers' = [handlers EXCEPT ![h] = [@ EXCEPT !.pc = "delayWait",
                                                   !.typingTimeout = "fired",
                                                   !.typingShown = TRUE]]
  /\ UNCHANGED <<configVars, dmVars, obsVars, timingVars, guardVars, cadenceVars, clockVars,
                 lastInteractionTimes, msgCount>>

\* lines 706-720: the delay is over; a typing timer that has not fired yet
\* is cleared, the handle is set to null
DelayElapsed(h) ==
  /\ \/ handlers[h].pc = "delayWait"
     \/ /\ handlers[h].pc = "typingWait"
        /\ handlers[h].responseDelayMs < handlers[h].typingDelayMs
  /\ handlers' = [handlers EXCEPT ![h] =
       [@ EXCEPT !.pc = "fetchConv",
                 !.typingTimeout = IF @ = "pending" THEN "cleared" ELSE "null",
                 !.waitedMs = handlers[h].responseDelayMs,
                 !.responseDelayMs = 0,
                 !.typingDelayMs = 0]]
  /\ UNCHANGED <<configVars, dmVars, obsVars, timingVars, guardVars, cadenceVars, clockVars,
                 lastInteractionTimes, msgCount>>

\* lines 680-686: reduced timing, the typing offset is over
SafeTypingStart(h) ==
  /\ handlers[h].pc = "safeWait1"
  /\ handlers' = [handlers EXCEPT ![h] =
                    [@ EXCEPT !.pc = IF ChannelKind(handlers[h].msg.channel) \in {"text", "dm"}
                                     THEN "safeTyping" ELSE "safeWait2",
                              !.waitedMs = handlers[h].typingDelayMs]]
  /\ UNCHANGED <<configVars, dmVars, obsVars, timingVars, guardVars, cadenceVars, clockVars,
                 lastInteractionTimes, msgCount>>

\* line 685: sendTyping returns or throws
SendTypingDone(h, results) ==
  /\ handlers[h].pc = "safeTyping"
  /\ \E ok \in results :
       handlers' = [handlers EXCEPT ![h] =
                      IF ok THEN [@ EXCEPT !.pc = "safeWait2", !.typingShown = TRUE]
                      ELSE Caught(@)]
  /\ UNCHANGED <<configVars, dmVars, obsVars, timingVars, guardVars, cadenceVars, clockVars,
                 lastInteractionTimes, msgCount>>

\* lines 687, 710-720: the rest of the reduced delay is over
SafeDelayElapsed(h) ==
  /\ handlers[h].pc = "safeWait2"
  /\ handlers' = [handlers EXCEPT ![h] =
       [@ EXCEPT !.pc = "fetchConv",
                 !.waitedMs = @ + handlers[h].responseDelayMs - handlers[h].typingDelayMs,
                 !.responseDelayMs = 0,
                 !.typingDelayMs = 0]]
  /\ UNCHANGED <<configVars, dmVars, obsVars, timingVars, guardVars, cadenceVars, clockVars,
                 lastInteractionTimes, msgCount>>

\* lines 716-727: the conversation fetch returns or throws
FetchConversationDone(h, results) ==
  /\ handlers[h].pc = "fetchConv"
  /\ \E ok \in results :
       handlers' = [handlers EXCEPT ![h] =
                      IF ok THEN [@ EXCEPT !.pc = "infer", !.computedDelayMs = 0,
                                           !.waitedMs = 0]
                      ELSE Caught(@)]
  /\ UNCHANGED <<configVars, dmVars, obsVars, timingVars, guardVars, cadenceVars, clockVars,
                 lastInteractionTimes, msgCount>>

\* A variant that treats rate-limiting as a failure of the call
InferenceOutcome_throw(aiResult) ==
  IF aiResult = "success" THEN "continue" ELSE "throw"

\* lines 723-732: what the handler does with the result of callKindroidAI
InferenceOutcome(aiResult) ==
  IF aiResult = "error" THEN "throw"
  ELSE IF aiResult = "rate_limited" THEN "return"
  ELSE "continue"

\* lines 723-769 and 512-523: the inference call returns or throws; on
\* success the cadence is evaluated and the media fetch or the send starts
InferenceDone(h, results) ==
  /\ handlers[h].pc = "infer"
  /\ \E aiResult \in results, r \in 0..(RandDen - 1) :
       LET H == [handlers[h] EXCEPT !.rateLimited = (aiResult = "rate_limited")]
           c == H.msg.channel
           cfg == accountConfigs[H.account]
           forceImage == checkDebugCheats(H.msg).forceImage
           cad == shouldAttachRedditImage(channelMessageTrackers,
                     recentlySentRedditImagesByChannel, c, cfg, forceImage, now, r)
           fetching == {o \in Handlers \ {h} :
                          handlers[o].pc = "media" /\ handlers[o].msg.channel = c}
           sending == AfterMedia(H, lastInteractionTimes, now)
       IN IF InferenceOutcome(aiResult) = "return"
          THEN /\ handlers' = [handlers EXCEPT ![h] = Finished(H, "rate_limited")]
               /\ UNCHANGED <<cadenceVars, lastInteractionTimes, replyObs>>
          ELSE IF InferenceOutcome(aiResult) = "throw"
          THEN /\ handlers' = [handlers EXCEPT ![h] = Caught(H)]
               /\ UNCHANGED <<cadenceVars, lastInteractionTimes, replyObs>>
          ELSE /\ channelMessageTrackers' = cad.trackers
               /\ recentlySentRedditImagesByChannel' = cad.cache
               /\ cadenceObs' = ObserveCadence(cadenceObs, channelMessageTrackers, c,
                                               cfg.id, cfg, forceImage, cad.attach)
               /\ cadenceSteps' = cadenceSteps
               /\ IF cad.attach /\ cfg.redditConfig.present
                  THEN /\ handlers' =
                            [o \in Handlers |->
                               IF o = h
                               THEN [H EXCEPT !.pc = "media", !.attempt = 0,
                                       !.recentlySentIds = CacheGet(cad.cache, c),
                                       !.fetchCalls = 1, !.fetchChannel = c,
                                       !.overlap = fetching]
                               ELSE IF o \in fetching
                               THEN [handlers[o] EXCEPT !.overlap = @ \cup {h}]
                               ELSE handlers[o]]
                       /\ UNCHANGED <<lastInteractionTimes, replyObs>>
                  ELSE /\ handlers' = [handlers EXCEPT ![h] = sending.h]
                       /\ lastInteractionTimes' = sending.ledger
                       /\ replyObs' = ObserveLedger(replyObs, lastInteractionTimes,
                                                    sending.ledger)
  /\ UNCHANGED <<configVars, dmVars, timingVars, guardVars, clockVars, msgCount>>

\* lines 523-557 and 742-769: getRandomRedditImage returns an image or null
MediaFetchDone(h, images) ==
  /\ handlers[h].pc = "media"
  /\ \E image \in images :
       LET H == handlers[h]
           c == H.msg.channel
           seen == [H EXCEPT !.fetchSame = IF H.fetchCalls = 1 THEN image
                                           ELSE IF @ = image THEN @ ELSE "mixed"]
           step == getUnseenRandomRedditImage(H.recentlySentIds, H.attempt, image)
           returned == [seen EXCEPT !.attachment = image, !.fetchResult = image,
                                    !.fetchLast = image,
                                    !.recentlySentIds = <<>>, !.attempt = 0]
           nothing == [seen EXCEPT !.attachment = None, !.fetchResult = None,
                                   !.fetchLast = image,
                                   !.recentlySentIds = <<>>, !.attempt = 0]
       IN IF step = "found"
          THEN LET sending == AfterMedia(returned, lastInteractionTimes, now)
               IN /\ recentlySentRedditImagesByChannel' =
                       MapSet(recentlySentRedditImagesByChannel, c,
                              PushFront(image, H.recentlySentIds))
                  /\ handlers' = [handlers EXCEPT ![h] = sending.h]
                  /\ lastInteractionTimes' = sending.ledger
                  /\ replyObs' = ObserveLedger(replyObs, lastInteractionTimes,
                                               sending.ledger)
          ELSE IF step = "none"
          THEN LET sending == AfterMedia(nothing, lastInteractionTimes, now)
               IN /\ handlers' = [handlers EXCEPT ![h] = sending.h]
                  /\ lastInteractionTimes' = sending.ledger
                  /\ replyObs' = ObserveLedger(replyObs, lastInteractionTimes,
                                               sending.ledger)
                  /\ UNCHANGED recentlySentRedditImagesByChannel
          ELSE /\ handlers' = [handlers EXCEPT ![h] =
                                 [seen EXCEPT !.attempt = @ + 1, !.fetchCalls = @ + 1]]
               /\ UNCHANGED <<recentlySentRedditImagesByChannel, lastInteractionTimes,
                              replyObs>>
  /\ UNCHANGED <<configVars, dmVars, timingVars, guardVars, clockVars, msgCount,
                 channelMessageTrackers, cadenceSteps, cadenceObs>>

\* lines 762-773: the send returns or throws
SendDone(h, results) ==
  /\ handlers[h].pc = "send"
  /\ \E ok \in results :
       LET H == handlers[h]
           ledger == updateLastInteractionTime(lastInteractionTimes, H.msg.channel,
                                               H.msg.author, H.account, now)
       IN IF ok
          THEN /\ handlers' = [handlers EXCEPT ![h] =
                                 Finished([H EXCEPT !.sentReply = TRUE], "replied")]
               /\ lastInteractionTimes' = ledger
               /\ replyObs' = ObserveLedger(
                                ObserveSend(replyObs, H.msg.channel, H.msg.author,
                                            H.account, H.attachment),
                                lastInteractionTimes, ledger)
          ELSE /\ handlers' = [handlers EXCEPT ![h] = Caught(H)]
               /\ UNCHANGED <<lastInteractionTimes, replyObs>>
  /\ UNCHANGED <<configVars, dmVars, timingVars, guardVars, cadenceVars, clockVars,
                 msgCount>>

\* lines 777-794: the send of the error message returns or throws
FallbackDone(h, results) ==
  /\ handlers[h].pc = "fallback"
  /\ \E ok \in results :
       handlers' = [handlers EXCEPT ![h] =
                      Finished([@ EXCEPT !.sentFallback = ok, !.fallbackTries = @ + 1],
                               IF ok THEN "fallback" ELSE "fallbackFailed")]
  /\ UNCHANGED <<configVars, dmVars, obsVars, timingVars, guardVars, cadenceVars, clockVars,
                 lastInteractionTimes, msgCount>>

\* ------------------------------------------------------------------------
\* Chain Guard under concurrent handlers: both accounts without media, all
\* messages in one channel and addressed to the account (so the probability
\* model lets them pass), written by a human or by a bot
\* ------------------------------------------------------------------------
AIResults == {"success", "rate_limited", "error"}
ChainMessages ==
  {Message("g1", author, TRUE, FALSE) : author \in Humans \cup ExternalBots}
    \cup {Message("g1", author, FALSE, FALSE) : author \in Humans}
\* Math.random() close to 1: only addressed messages are answered
HighDraws == {PROBABILITY_UNIT - 1}

InitChainHandlers ==
  /\ InitMaps
  /\ accountConfigs = DefaultConfigs

NextChainHandlers ==
  \/ \E h \in Handlers : Receive(h, Accounts, ChainMessages, BOOLEAN, MaxMessages)
  \/ \E h \in Handlers : Decide(h, HighDraws, {0}, {0})
  \/ \E h \in Handlers : TypingTimerFires(h)
  \/ \E h \in Handlers : DelayElapsed(h)
  \/ \E h \in Handlers : FetchConversationDone(h, BOOLEAN)
  \/ \E h \in Handlers : InferenceDone(h, AIResults)
  \/ \E h \in Handlers : SendDone(h, BOOLEAN)
  \/ \E h \in Handlers : FallbackDone(h, BOOLEAN)
SpecChainHandlers == InitChainHandlers /\ [][NextChainHandlers]_vars

\* ------------------------------------------------------------------------
\* Media under concurrent handlers: both accounts with media configured,
\* messages of a human in one channel, addressed to the account, with or
\* without the force override; the collaborators other than the media
\* source succeed
\* ------------------------------------------------------------------------
MediaInterval == Reddit(2, 2)
MediaMessages == {Message("g1", author, TRUE, force) : author \in Humans, force \in BOOLEAN}

InitMediaHandlers ==
  /\ InitMaps
  /\ accountConfigs = [a \in Accounts |-> Config(a, 50, MediaInterval)]

NextMediaHandlers ==
  \/ \E h \in Handlers : Receive(h, Accounts, MediaMessages, {TRUE}, MaxMediaMessages)
  \/ \E h \in Handlers : Decide(h, {0}, {0}, {0})
  \/ \E h \in Handlers : TypingTimerFires(h)
  \/ \E h \in Handlers : DelayElapsed(h)
  \/ \E h \in Handlers : FetchConversationDone(h, {TRUE})
  \/ \E h \in Handlers : InferenceDone(h, {"success"})
  \/ \E h \in Handlers : MediaFetchDone(h, Items)
  \/ \E h \in Handlers : SendDone(h, {TRUE})
SpecMediaHandlers == InitMediaHandlers /\ [][NextMediaHandlers]_vars

\* ------------------------------------------------------------------------
\* The media fetch of one handler at a time: every message carries the force
\* override, the media source returns an item or nothing
\* ------------------------------------------------------------------------
OneHandler == {1}
ForcedMessages == {Message(c, author, TRUE, TRUE) : c \in GuildChannels, author \in Humans}

NextFetch ==
  \/ \E h \in OneHandler : Receive(h, Accounts, ForcedMessages, {TRUE}, MaxMessages)
  \/ \E h \in OneHandler : Decide(h, {0}, {0}, {0})
  \/ \E h \in OneHandler : TypingTimerFires(h)
  \/ \E h \in OneHandler : DelayElapsed(h)
  \/ \E h \in OneHandler : FetchConversationDone(h, {TRUE})
  \/ \E h \in OneHandler : InferenceDone(h, {"success"})
  \/ \E h \in OneHandler : MediaFetchDone(h, Items \cup {None})
  \/ \E h \in OneHandler : SendDone(h, {TRUE})
SpecFetch == InitMediaHandlers /\ [][NextFetch]_vars

\* ------------------------------------------------------------------------
\* The recency cache when it is full: bot1 has answered
\* RECENTLY_SENT_IMAGE_CACHE_SIZE forced messages of human1 in g1, each with
\* an image of its own (the newest is "1"); then one handler at a time
\* answers further forced messages, and the media source returns a new
\* image, the newest or the oldest cached one, or nothing
\* ------------------------------------------------------------------------
FullCache == [i \in 1..RECENTLY_SENT_IMAGE_CACHE_SIZE |-> ToString(i)]
CacheMessages == {Message("g1", author, TRUE, TRUE) : author \in Humans}
CacheImages ==
  Items \cup {FullCache[1], FullCache[RECENTLY_SENT_IMAGE_CACHE_SIZE]} \cup {None}

InitCache ==
  /\ accountConfigs = [a \in Accounts |-> Config(a, 50, MediaInterval)]
  /\ recentlySentRedditImagesByChannel = MapSet(EmptyMap, "g1", FullCache)
  /\ accountToAccountChains =
       shouldAllowAccountResponse(EmptyMap, "g1", "bot1", StartClock).chains
  /\ guardObs = ObserveCandidate(ObserveHuman(InitGuardObs, "g1", StartClock),
                                 "g1", "bot1", TRUE, StartClock)
  /\ lastInteractionTimes =
       updateLastInteractionTime(EmptyMap, "g1", "human1", "bot1", StartClock)
  /\ replyObs =
       ObserveLedger([InitReplyObs EXCEPT
                        !.items["g1"] = {FullCache[i] : i \in DOMAIN FullCache},
                        !.keys = {getInteractionKey("g1", "human1", "bot1")}],
                     EmptyMap, lastInteractionTimes)
  /\ channelMessageTrackers = EmptyMap
  /\ cadenceSteps = 0
  /\ cadenceObs = InitCadenceObs
  /\ handlers = [h \in Handlers |-> IdleHandler]
  /\ msgCount = 0
  /\ now = StartClock
  /\ ticks = 0
  /\ guardSteps = 0
  /\ dmConversationCounts = EmptyMap
  /\ ledgerSteps = 0
  /\ chance = NoChance
  /\ InitExtra
  /\ timing = NoTiming

NextCache ==
  \/ \E h \in OneHandler : Receive(h, ReplyAccounts, CacheMessages, {TRUE}, MaxCacheMessages)
  \/ \E h \in OneHandler : Decide(h, {0}, {0}, {0})
  \/ \E h \in OneHandler : TypingTimerFires(h)
  \/ \E h \in OneHandler : DelayElapsed(h)
  \/ \E h \in OneHandler : FetchConversationDone(h, {TRUE})
  \/ \E h \in OneHandler : InferenceDone(h, {"success"})
  \/ \E h \in OneHandler : MediaFetchDone(h, CacheImages)
  \/ \E h \in OneHandler : SendDone(h, {TRUE})
SpecCache == InitCache /\ [][NextCache]_vars

\* ------------------------------------------------------------------------
\* The whole reply path of one handler at a time: guild text channel, thread
\* and direct message, with and without the permission, addressed or not,
\* with and without the force override, written by a human or by a bot;
\* every collaborator can succeed or fail
\* ------------------------------------------------------------------------
ReplyMessages ==
  {Message(c, author, mentioned, force) :
     c \in GuildChannels, author \in Humans \cup ExternalBots,
     mentioned \in BOOLEAN, force \in BOOLEAN}
    \cup {Message(c, author, FALSE, force) :
            c \in DMChannels, author \in Humans, force \in BOOLEAN}
ReplyDraws == {0, PROBABILITY_UNIT - 1}

NextReplyHandlers ==
  \/ \E h \in OneHandler : Receive(h, ReplyAccounts, ReplyMessages, BOOLEAN, MaxReplyMessages)
  \/ \E h \in OneHandler : Decide(h, ReplyDraws, {0}, {0})
  \/ \E h \in OneHandler : TypingTimerFires(h)
  \/ \E h \in OneHandler : DelayElapsed(h)
  \/ \E h \in OneHandler : FetchConversationDone(h, BOOLEAN)
  \/ \E h \in OneHandler : InferenceDone(h, AIResults)
  \/ \E h \in OneHandler : MediaFetchDone(h, Items \cup {None})
  \/ \E h \in OneHandler : SendDone(h, BOOLEAN)
  \/ \E h \in OneHandler : FallbackDone(h, BOOLEAN)
SpecReplyHandlers == InitMediaHandlers /\ [][NextReplyHandlers]_vars

\* ------------------------------------------------------------------------
\* The timing of one handler at a time: messages of a human that mention the
\* account, in a text channel, a thread and a direct-message channel, one of
\* them with the instant-response override; a minute or more passes between
\* messages, so that the computed delay falls on both sides of
\* SAFE_DELAY_LIMIT_MS; every random draw of the delay and of the typing
\* offset; sendTyping succeeds or throws
\* ------------------------------------------------------------------------
TimingMessages ==
  {Message(c, author, TRUE, FALSE) : c \in Channels, author \in Humans}
    \cup {[Message("g1", author, TRUE, FALSE) EXCEPT !.instantResponse = TRUE] :
            author \in Humans}
TimingDraws == 0..RandDen
TimingTicks == {MinuteMs}

NextTimingHandlers ==
  \/ \E h \in OneHandler : Receive(h, ReplyAccounts, TimingMessages, {TRUE}, MaxTimingMessages)
  \/ \E h \in OneHandler : Decide(h, {0}, TimingDraws, TimingDraws)
  \/ \E h \in OneHandler : TypingTimerFires(h)
  \/ \E h \in OneHandler : DelayElapsed(h)
  \/ \E h \in OneHandler : SafeTypingStart(h)
  \/ \E h \in OneHandler : SendTypingDone(h, BOOLEAN)
  \/ \E h \in OneHandler : SafeDelayElapsed(h)
  \/ \E h \in OneHandler : FetchConversationDone(h, {TRUE})
  \/ \E h \in OneHandler : InferenceDone(h, {"success", "rate_limited"})
  \/ \E h \in OneHandler : SendDone(h, {TRUE})
  \/ \E h \in OneHandler : FallbackDone(h, {TRUE})
  \/ Tick(TimingTicks)
SpecTimingHandlers == Init /\ [][NextTimingHandlers]_vars

\* ------------------------------------------------------------------------
\* One invocation of the handler after the other, with every collaborator
\* free to fail: messages of a human that mention bot1 in a text channel,
\* and direct messages; the media interval is [2,2], so every second reply
\* in a channel fetches an image; a minute passes between messages, so that
\* both timing flows occur.  An await
\* that has been started returns or throws, and a timer that has been set
\* fires: the steps of a running invocation are taken eventually.
\* ------------------------------------------------------------------------
TerminationMessages ==
  {Message(c, author, c \in GuildChannels, FALSE) : c \in {"g1"} \cup DMChannels, author \in Humans}
TerminationDraws == {0, RandDen}
TerminationImages == {"img1", None}

HandlerStep ==
  \/ \E h \in OneHandler : Decide(h, {0}, TerminationDraws, {0})
  \/ \E h \in OneHandler : TypingTimerFires(h)
  \/ \E h \in OneHandler : DelayElapsed(h)
  \/ \E h \in OneHandler : SafeTypingStart(h)
  \/ \E h \in OneHandler : SendTypingDone(h, BOOLEAN)
  \/ \E h \in OneHandler : SafeDelayElapsed(h)
  \/ \E h \in OneHandler : FetchConversationDone(h, BOOLEAN)
  \/ \E h \in OneHandler : InferenceDone(h, AIResults)
  \/ \E h \in OneHandler : MediaFetchDone(h, TerminationImages)
  \/ \E h \in OneHandler : SendDone(h, BOOLEAN)
  \/ \E h \in OneHandler : FallbackDone(h, BOOLEAN)

MinutePasses ==
  /\ \A h \in OneHandler : handlers[h].pc \in {"idle", "done"}
  /\ Tick(TimingTicks)

NextTermination ==
  \/ \E h \in OneHandler :
       Receive(h, ReplyAccounts, TerminationMessages, BOOLEAN, MaxTerminationMessages)
  \/ HandlerStep
  \/ MinutePasses
SpecTermination ==
  InitMediaHandlers /\ [][NextTermination]_vars /\ WF_vars(HandlerStep)

\* ------------------------------------------------------------------------
\* Direct messages next to a bot-to-bot chain: one handler of bot1 at a time;
\* messages of another bot and of a human that mention bot1 in a text
\* channel, and direct messages of the human; the probability draws are the
\* smallest and the largest one
\* ------------------------------------------------------------------------
DirectMessages ==
  {Message(c, author, TRUE, FALSE) : c \in {"g1"}, author \in Humans \cup ExternalBots}
    \cup {Message(c, author, FALSE, FALSE) : c \in DMChannels, author \in Humans}

NextDirect ==
  \/ \E h \in OneHandler : Receive(h, ReplyAccounts, DirectMessages, {TRUE}, MaxDirectMessages)
  \/ \E h \in OneHandler : Decide(h, ReplyDraws, {0}, {0})
  \/ \E h \in OneHandler : TypingTimerFires(h)
  \/ \E h \in OneHandler : DelayElapsed(h)
  \/ \E h \in OneHandler : FetchConversationDone(h, {TRUE})
  \/ \E h \in OneHandler : InferenceDone(h, AIResults)
  \/ \E h \in OneHandler : SendDone(h, BOOLEAN)
  \/ \E h \in OneHandler : FallbackDone(h, BOOLEAN)
SpecDirect == Init /\ [][NextDirect]_vars

\* ------------------------------------------------------------------------
\* C1: once an identity has been allowed MAX_BOT_CHAIN consecutive replies
\* in a channel (no human message, no allowed reply of another identity, no
\* gap above the inactivity window), its next candidate reply is blocked;
\* the candidate reply of another identity right after the block is allowed
\* and leaves the entry with count 1 and that identity as last speaker.
\* ------------------------------------------------------------------------
FourthAtHand ==
  /\ guardObs.last.kind = "call"
  /\ guardObs.last.runBefore.id = guardObs.last.id
  /\ guardObs.last.runBefore.n >= MAX_BOT_CHAIN
  /\ guardObs.last.t - guardObs.last.runBefore.lastT <= BOT_CHAIN_INACTIVITY_RESET_MS

OtherAfterBlock ==
  /\ guardObs.last.kind = "call"
  /\ guardObs.last.blockedBefore # ""
  /\ guardObs.last.blockedBefore # guardObs.last.id

C1_FourthBlockedOtherAllowed ==
  /\ FourthAtHand => ~guardObs.last.allowed
  /\ OtherAfterBlock =>
       /\ guardObs.last.allowed
       /\ MapHas(accountToAccountChains, guardObs.last.ch)
       /\ accountToAccountChains[guardObs.last.ch].chainCount = 1
       /\ accountToAccountChains[guardObs.last.ch].lastAccountId = guardObs.last.id

C1_Witness ==
  /\ OtherAfterBlock
  /\ guardObs.last.runBefore.n = MAX_BOT_CHAIN
  /\ guardObs.last.runBefore.id = guardObs.last.blockedBefore
  /\ guardObs.last.allowed

\* ------------------------------------------------------------------------
\* C2: without a human message and without an inactivity gap, the number of
\* agent replies the guard allows in a channel is bounded, whichever
\* identities make them (here: by every identity using its full quota).
\* ------------------------------------------------------------------------
C2_ChainLengthBounded ==
  \A c \in GuildChannels : guardObs.len[c] <= MAX_BOT_CHAIN * Cardinality(Accounts)

\* ------------------------------------------------------------------------
\* C3: once a handler has processed a human message of a guild channel
\* (lines 615-620), the channel has no Chain Guard entry, and the next
\* candidate reply in that channel, of whichever identity, is allowed and
\* starts a new entry, whatever run the human message has ended.
\* ------------------------------------------------------------------------
AfterHuman ==
  /\ guardObs.last.kind = "call"
  /\ guardObs.last.humanBefore

C3_HumanResetsChain ==
  /\ \A c \in GuildChannels : guardObs.human[c] => ~MapHas(accountToAccountChains, c)
  /\ AfterHuman =>
       /\ guardObs.last.allowed
       /\ MapHas(accountToAccountChains, guardObs.last.ch)
       /\ accountToAccountChains[guardObs.last.ch].chainCount = 1
       /\ accountToAccountChains[guardObs.last.ch].lastAccountId = guardObs.last.id

C3_Witness ==
  /\ AfterHuman
  /\ guardObs.last.clearedBefore.n = MAX_BOT_CHAIN
  /\ guardObs.last.clearedBefore.id = guardObs.last.id
  /\ guardObs.last.allowed
  /\ \E h \in Handlers : handlers[h].pc = "typingWait" /\ ~handlers[h].msg.authorBot

\* ------------------------------------------------------------------------
\* C4: however the running handlers interleave, every stored count is at
\* most MAX_BOT_CHAIN, the stored count and last speaker are exactly the
\* trailing run of allowed replies (no candidate reply is under-counted),
\* so a run never has more than MAX_BOT_CHAIN replies, and a candidate
\* reply that would extend a full run is blocked.
\* ------------------------------------------------------------------------
InFlight(h) == handlers[h].pc \notin {"idle", "perm", "done"}

C4_CountAtomicAndBounded ==
  /\ \A c \in DOMAIN accountToAccountChains :
       /\ accountToAccountChains[c].chainCount <= MAX_BOT_CHAIN
       /\ accountToAccountChains[c].chainCount = guardObs.run[c].n
       /\ accountToAccountChains[c].lastAccountId = guardObs.run[c].id
  /\ \A c \in GuildChannels : guardObs.run[c].n <= MAX_BOT_CHAIN
  /\ FourthAtHand => ~guardObs.last.allowed

C4_Witness ==
  /\ guardObs.last.kind = "call"
  /\ ~guardObs.last.allowed
  /\ guardObs.last.runBefore.n = MAX_BOT_CHAIN
  /\ \E h1, h2 \in Handlers :
       /\ h1 # h2
       /\ InFlight(h1) /\ handlers[h1].account = guardObs.last.id
       /\ handlers[h2].pc = "done" /\ handlers[h2].outcome = "blocked"

\* ------------------------------------------------------------------------
\* C5: the Chain Guard is written only when a reply has been sent: as long
\* as no reply has been sent (the Interaction Ledger, written on every
\* successful send, is empty) and no handler is running, no channel has a
\* Chain Guard entry.
\* ------------------------------------------------------------------------
C5_GuardWrittenOnlyOnSuccess ==
  (/\ \A h \in Handlers : handlers[h].pc \in {"idle", "done"}
   /\ lastInteractionTimes = EmptyMap)
    => accountToAccountChains = EmptyMap

\* ------------------------------------------------------------------------
\* C6: however the handlers that evaluate the cadence of a channel
\* interleave, the stored count is the number of evaluations since the last
\* true result (none is lost), an evaluation returns true exactly when it
\* takes the count to the target, it then leaves the count at 0, and the
\* true results are no more than one per target crossing (with the interval
\* [k, k]: evaluations k, 2k, ... and no others).
\* ------------------------------------------------------------------------
Evaluated(h) ==
  /\ handlers[h].pc \in {"media", "send"}
  /\ ~handlers[h].msg.forceImage

C6_CadenceAtomic ==
  /\ \A c \in DOMAIN channelMessageTrackers :
       /\ channelMessageTrackers[c].messageCount = cadenceObs.since[c]
       /\ cadenceObs.hits[c] = cadenceObs.evals[c] \div MediaInterval.minMessages
  /\ (cadenceObs.last.kind = "eval" /\ cadenceObs.last.existed) =>
       /\ cadenceObs.last.attach <=>
            (cadenceObs.last.countBefore + 1 >= cadenceObs.last.targetBefore)
       /\ cadenceObs.last.attach =>
            channelMessageTrackers[cadenceObs.last.ch].messageCount = 0
  /\ (cadenceObs.last.kind = "eval" /\ ~cadenceObs.last.existed) => ~cadenceObs.last.attach
  /\ \A h1, h2 \in Handlers :
       (/\ h1 # h2
        /\ Evaluated(h1) /\ Evaluated(h2)
        /\ handlers[h1].msg.channel = handlers[h2].msg.channel
        /\ cadenceObs.evals[handlers[h1].msg.channel] < 2 * MediaInterval.minMessages)
         => ~(handlers[h1].pc = "media" /\ handlers[h2].pc = "media")

C6_Witness ==
  /\ cadenceObs.last.kind = "eval"
  /\ cadenceObs.last.attach
  /\ \E h1, h2 \in Handlers :
       /\ h1 # h2
       /\ Evaluated(h1) /\ handlers[h1].pc = "media"
       /\ Evaluated(h2) /\ handlers[h2].pc = "send" /\ handlers[h2].attachment = None
       /\ handlers[h1].msg.channel = handlers[h2].msg.channel

\* ------------------------------------------------------------------------
\* C9: getUnseenRandomRedditImage makes at most
\* MAX_UNIQUE_IMAGE_FETCH_ATTEMPTS + 1 calls to the media source and then
\* returns; it returns nothing only after the final call has returned
\* nothing; when the media source has returned one and the same item on
\* every call, it returns that item.
\* ------------------------------------------------------------------------
Returned(h) == handlers[h].pc = "send" /\ handlers[h].fetchResult # ""

C9_FetchTerminates ==
  \A h \in Handlers :
    /\ handlers[h].fetchCalls <= MAX_UNIQUE_IMAGE_FETCH_ATTEMPTS + 1
    /\ handlers[h].pc = "media" => handlers[h].attempt + 1 = handlers[h].fetchCalls
    /\ Returned(h) =>
         /\ handlers[h].fetchResult = handlers[h].fetchLast
         /\ handlers[h].fetchResult = None =>
              handlers[h].fetchCalls = MAX_UNIQUE_IMAGE_FETCH_ATTEMPTS + 1
         /\ handlers[h].fetchSame \in Items =>
              handlers[h].fetchResult = handlers[h].fetchSame

C9_Witness ==
  \E h \in Handlers :
    /\ Returned(h)
    /\ handlers[h].fetchCalls = MAX_UNIQUE_IMAGE_FETCH_ATTEMPTS + 1
    /\ handlers[h].fetchSame \in Items
    /\ handlers[h].fetchResult = handlers[h].fetchSame

\* ------------------------------------------------------------------------
\* C10: when the media fetches of two handlers for one channel have run
\* alongside each other and both have returned an item, the channel's
\* Recency Cache holds the ids of both items.
\* ------------------------------------------------------------------------
C10_NoCacheUpdateLost ==
  \A h1, h2 \in Handlers :
    (/\ h1 # h2
     /\ h2 \in handlers[h1].overlap /\ h1 \in handlers[h2].overlap
     /\ handlers[h1].fetchChannel = handlers[h2].fetchChannel
     /\ handlers[h1].fetchResult \in Items
     /\ handlers[h2].fetchResult \in Items)
      => /\ Includes(CacheGet(recentlySentRedditImagesByChannel,
                              handlers[h1].fetchChannel), handlers[h1].fetchResult)
         /\ Includes(CacheGet(recentlySentRedditImagesByChannel,
                              handlers[h1].fetchChannel), handlers[h2].fetchResult)

\* ------------------------------------------------------------------------
\* C7: with a degenerate interval min = max = k, k >= 2, for every account
\* with media configured, exactly the evaluations numbered k, 2k, 3k, ... of
\* a channel return true; the first evaluation returns false; after a true
\* result the running count is 0 and the target is again k.
\* ------------------------------------------------------------------------
MediaAccounts == {a \in Accounts : accountConfigs[a].redditConfig.present}

Degenerate(k) ==
  /\ MediaAccounts # {}
  /\ \A a \in MediaAccounts :
       /\ accountConfigs[a].redditConfig.minMessages = k
       /\ accountConfigs[a].redditConfig.maxMessages = k

C7_DegenerateCadence ==
  \A k \in 2..3 :
    (Degenerate(k) /\ cadenceObs.last.kind = "eval") =>
      /\ cadenceObs.last.attach <=> (cadenceObs.last.n % k = 0)
      /\ cadenceObs.last.n = 1 => ~cadenceObs.last.attach
      /\ cadenceObs.last.attach =>
           /\ channelMessageTrackers[cadenceObs.last.ch].messageCount = 0
           /\ channelMessageTrackers[cadenceObs.last.ch].targetMessageCount = k

C7_Witness ==
  /\ Degenerate(3)
  /\ cadenceObs.last.kind = "eval"
  /\ cadenceObs.last.n = 6
  /\ cadenceObs.last.attach

\* ------------------------------------------------------------------------
\* C8: whenever an account evaluates the cadence of a channel, the target
\* it compares the count with lies in [minMessages, maxMessages] of that
\* account's own media configuration, also when accounts with different
\* intervals share the channel's entry; a re-roll happens exactly when the
\* count reaches the target and sets the count to 0.
\* ------------------------------------------------------------------------
InInterval(x, rc) == rc.minMessages <= x /\ x <= rc.maxMessages

C8_TargetInEvaluatorInterval ==
  (cadenceObs.last.kind = "eval" /\ cadenceObs.last.existed) =>
    /\ InInterval(cadenceObs.last.targetBefore, accountConfigs[cadenceObs.last.id].redditConfig)
    /\ cadenceObs.last.attach <=> (cadenceObs.last.countBefore + 1 >= cadenceObs.last.targetBefore)
    /\ cadenceObs.last.attach => channelMessageTrackers[cadenceObs.last.ch].messageCount = 0

\* ------------------------------------------------------------------------
\* C11: every identifier in a channel's Recency Cache is the identifier of a
\* media item that was sent in that channel: once no handler is between the
\* media fetch and its send, the cache holds no identifier of an item whose
\* reply failed or was never attempted.
\* ------------------------------------------------------------------------
Quiet == \A h \in Handlers : handlers[h].pc \in {"idle", "done"}

C11_CacheHoldsOnlySentItems ==
  Quiet =>
    \A c \in DOMAIN recentlySentRedditImagesByChannel :
      \A i \in 1..Len(recentlySentRedditImagesByChannel[c]) :
        recentlySentRedditImagesByChannel[c][i] \in replyObs.items[c]

\* ------------------------------------------------------------------------
\* C12: an Interaction Ledger entry for (channel, counterpart, identity) is
\* created or updated only after the reply to that counterpart has been sent
\* successfully: every key of the ledger is the key of a reply that was sent,
\* and a step that sends no reply leaves the ledger unchanged.
\* ------------------------------------------------------------------------
C12_LedgerOnlyAfterSentReply ==
  DOMAIN lastInteractionTimes \subseteq replyObs.keys

\* ------------------------------------------------------------------------
\* C13: for every key (channel, counterpart, identity) the successive
\* timestamps stored in the Interaction Ledger are non-decreasing, also when
\* the entry was evicted by a sweep and created again later: the timestamp
\* a key holds is the largest one ever stored for it.
\* ------------------------------------------------------------------------
C13_LedgerTimestampsMonotone ==
  \A k \in DOMAIN lastInteractionTimes :
    /\ MapHas(replyObs.high, k)
    /\ lastInteractionTimes[k] = replyObs.high[k]

C13_Witness ==
  \E k \in replyObs.gone :
    /\ k[2] \in Humans
    /\ MapHas(lastInteractionTimes, k)
    /\ lastInteractionTimes[k] > StartClock + INTERACTION_TRACKING_RETENTION_MS

\* ------------------------------------------------------------------------
\* C14: when the inference collaborator reports rate-limiting, the handler
\* stops silently, in the guild path and in the direct-message path: the
\* step in which the result arrives ends the handler, no reply and no
\* fallback message is sent, the cadence is not evaluated (trackers
\* unchanged), the Recency Cache and the Interaction Ledger are unchanged.
\* ------------------------------------------------------------------------
C14_RateLimitedStopsSilently ==
  [][\A h \in Handlers :
       (handlers[h].pc = "infer" /\ handlers'[h].rateLimited) =>
         /\ handlers'[h].pc = "done"
         /\ ~handlers'[h].sentReply
         /\ ~handlers'[h].sentFallback
         /\ handlers'[h].fallbackTries = 0
         /\ UNCHANGED <<channelMessageTrackers, recentlySentRedditImagesByChannel,
                        lastInteractionTimes, cadenceObs, replyObs>>]_vars

C14_Witness ==
  \E h \in Handlers :
    /\ handlers[h].pc = "done"
    /\ handlers[h].rateLimited
    /\ ChannelKind(handlers[h].msg.channel) = "dm"
    /\ MapHas(recentlySentRedditImagesByChannel, handlers[h].msg.channel)
    /\ lastInteractionTimes # EmptyMap

\* ------------------------------------------------------------------------
\* C15: if sending the reply fails after a successful inference call, the
\* handler attempts exactly one fallback message; whether that one succeeds
\* or fails, the handler then terminates, and the Interaction Ledger is not
\* updated for the message.
\* ------------------------------------------------------------------------
C15_OneFallbackAfterFailedSend ==
  [][\A h \in Handlers :
       /\ (handlers[h].pc = "send" /\ handlers'[h].pc # "send"
              /\ ~handlers'[h].sentReply) =>
            /\ handlers'[h].pc = "fallback"
            /\ handlers'[h].fallbackTries = 0
            /\ UNCHANGED lastInteractionTimes
       /\ (handlers[h].pc = "fallback" /\ handlers'[h].pc # "fallback") =>
            /\ handlers'[h].pc = "done"
            /\ handlers'[h].fallbackTries = 1
            /\ ~handlers'[h].sentReply
            /\ UNCHANGED lastInteractionTimes]_vars

C15_Witness ==
  \E h \in Handlers :
    /\ msgCount = 1
    /\ handlers[h].pc = "done"
    /\ handlers[h].outcome = "fallbackFailed"
    /\ handlers[h].fallbackTries = 1
    /\ MapHas(recentlySentRedditImagesByChannel, handlers[h].msg.channel)
    /\ lastInteractionTimes = EmptyMap

\* ------------------------------------------------------------------------
\* C16: if the identity lacks the required permission in the channel, the
\* handler stops before any delay, typing indicator, inference call or send
\* is scheduled and leaves every state map unchanged (Chain Guard, cadence,
\* Recency Cache, ledger), also when the message was written by a human.
\* ------------------------------------------------------------------------
Denied(H) == ChannelKind(H.msg.channel) # "dm" /\ ~H.permitted

C16_PermissionDenialStopsFirst ==
  [][\A h \in Handlers :
       (handlers[h].pc = "perm" /\ Denied(handlers[h]) /\ handlers'[h] # handlers[h]) =>
         /\ handlers'[h].pc = "done"
         /\ handlers'[h].typingTimeout = "null"
         /\ ~handlers'[h].sentReply
         /\ ~handlers'[h].sentFallback
         /\ UNCHANGED <<accountToAccountChains, channelMessageTrackers,
                        recentlySentRedditImagesByChannel, lastInteractionTimes,
                        dmConversationCounts>>]_vars

C16_Witness ==
  \E h \in Handlers :
    /\ handlers[h].pc = "done"
    /\ handlers[h].outcome = "denied"
    /\ handlers[h].msg.author \in Humans
    /\ MapHas(accountToAccountChains, handlers[h].msg.channel)
    /\ accountToAccountChains[handlers[h].msg.channel].chainCount = 1
    /\ guardObs.last.kind = "call"

C18_DelayWithinHardLimits ==
  timing.evaluated =>
    /\ MIN_RESPONSE_DELAY_MS <= timing.responseDelayMs
    /\ timing.responseDelayMs <= MAX_RESPONSE_DELAY_MS

C18_Witness ==
  /\ timing.evaluated
  /\ timing.timeSinceLastMs >= INTERACTION_TRACKING_RETENTION_MS
  /\ ~timing.isDM
  /\ ~timing.isUrgent
  /\ timing.responseDelayMs = MAX_RESPONSE_DELAY_MS

C20_NoDanglingTypingTimer ==
  \A h \in Handlers :
    /\ handlers[h].pc \notin {"typingWait", "delayWait"} =>
         handlers[h].typingTimeout \notin {"pending", "fired"}
    /\ handlers[h].pc \in {"typingWait", "safeWait1"} =>
         handlers[h].typingDelayMs < handlers[h].responseDelayMs
    /\ handlers[h].typingTimeout # "cleared"

C20_Witness ==
  \E h \in Handlers :
    /\ handlers[h].pc = "done"
    /\ handlers[h].outcome = "replied"
    /\ handlers[h].sentReply
    /\ handlers[h].typingShown
    /\ handlers[h].typingTimeout = "null"

\* ------------------------------------------------------------------------
\* C21: for plain text with no boost (no '?', no '!', no emotional keyword,
\* length <= 100) the unified response probability is non-decreasing in the
\* interaction rate L over 1..100 and takes the values of the piecewise
\* linear formula at the breakpoints: 0.05 at 20, 0.15 at 40, 0.30 at 60,
\* 0.50 at 80, 0.70 at 100.
\* ------------------------------------------------------------------------
Percent(p) == (PROBABILITY_UNIT \div 100) * p
Plain(m) == ~m.question /\ ~m.exclamation /\ ~m.emotionWord /\ ~m.long
Unaddressed(m) == ~m.isMentioned /\ ~m.containsAccountName

C21_BaseChanceMonotone ==
  (chance.evaluated /\ chance.path = "unified" /\ Plain(chance.msg)) =>
    LET L == chance.cfg.interactionRate
    IN /\ L > 1 => chance.probability >= UnifiedResponseChance(chance.msg, L - 1)
       /\ L = 20 => chance.probability = Percent(5)
       /\ L = 40 => chance.probability = Percent(15)
       /\ L = 60 => chance.probability = Percent(30)
       /\ L = 80 => chance.probability = Percent(50)
       /\ L = 100 => chance.probability = Percent(70)
       /\ L = 21 => chance.probability > Percent(5)

C21_Witness ==
  /\ chance.evaluated
  /\ chance.path = "unified"
  /\ Plain(chance.msg)
  /\ chance.cfg.interactionRate = 40
  /\ chance.probability = Percent(15)
  /\ chance.draw1 = 0
  /\ chance.responded

\* ------------------------------------------------------------------------
\* C22: for every interaction rate in 1..100 and every unaddressed text the
\* unified response probability the draw is compared with is at most 0.8,
\* whatever combination of boosts applies; so the largest draw never
\* responds.
\* ------------------------------------------------------------------------
C22_UnifiedChanceCapped ==
  (chance.evaluated /\ chance.path = "unified") =>
    /\ chance.probability <= Percent(80)
    /\ chance.draw1 >= Percent(80) => ~chance.responded

C22_Witness ==
  /\ chance.evaluated
  /\ chance.path = "unified"
  /\ chance.cfg.interactionRate = MAX_INTERACTION_RATE
  /\ chance.msg.question
  /\ chance.msg.long
  /\ chance.probability = Percent(80)
  /\ chance.draw1 = PROBABILITY_UNIT - 1
  /\ ~chance.responded

\* ------------------------------------------------------------------------
\* C23: for every legacy configuration (no interaction rate, user account,
\* any frequency tier and behaviour tier) and every unaddressed text the
\* legacy response probability is at most 0.5.
\* ------------------------------------------------------------------------
C23_LegacyChanceCapped ==
  (chance.evaluated /\ chance.path = "legacy") =>
    chance.probability <= Percent(50)

\* ------------------------------------------------------------------------
\* C24: a bot account with no interaction rate configured never responds to
\* an unaddressed message (neither mentioned nor named): shouldAccountRespond
\* returns false for every text and every random draw.
\* ------------------------------------------------------------------------
C24_BotWithoutRateMentionOnly ==
  (chance.evaluated /\ chance.cfg.interactionRate = 0 /\ chance.cfg.accountType = "bot"
     /\ Unaddressed(chance.msg)) =>
    ~chance.responded

C24_Witness ==
  /\ chance.evaluated
  /\ chance.cfg.interactionRate = 0
  /\ chance.cfg.accountType = "bot"
  /\ Unaddressed(chance.msg)
  /\ chance.msg.question
  /\ chance.draw1 = 0
  /\ chance.draw2 = 0
  /\ ~chance.responded

\* ------------------------------------------------------------------------
\* C25: an account with no interaction rate and with no legacy fields
\* configured (no frequency tier, no behaviour tier) never responds to an
\* unaddressed message, whatever its kind (bot or user).
\* ------------------------------------------------------------------------
C25_NoRateNoLegacyNeverResponds ==
  (chance.evaluated /\ chance.cfg.interactionRate = 0
     /\ chance.cfg.messageFrequency = "" /\ chance.cfg.messageBehavior = ""
     /\ Unaddressed(chance.msg)) =>
    ~chance.responded

\* ------------------------------------------------------------------------
\* C26: a message that mentions the account or contains its name always
\* passes the probability model: shouldAccountRespond returns true for
\* every configuration (interaction rate 1..100 or absent, bot or user),
\* whatever the random draws would be.
\* ------------------------------------------------------------------------
C26_AddressedAlwaysPasses ==
  (chance.evaluated /\ (chance.msg.isMentioned \/ chance.msg.containsAccountName)) =>
    /\ chance.responded
    /\ chance.path = "addressed"

C26_Witness ==
  /\ chance.evaluated
  /\ chance.msg.containsAccountName
  /\ ~chance.msg.isMentioned
  /\ chance.cfg.interactionRate = 1
  /\ chance.cfg.accountType = "user"
  /\ Plain(chance.msg)
  /\ chance.draw1 = PROBABILITY_UNIT - 1
  /\ chance.draw2 = PROBABILITY_UNIT - 1
  /\ chance.responded

\* ------------------------------------------------------------------------
\* C27: the direct-message path bypasses the Chain Guard: the decision step
\* of a direct message neither modifies any Chain Guard entry (a human
\* direct message resets no chain) nor consults the guard or the
\* probability model, and always proceeds to the timing of the reply,
\* whatever the chain state of any channel is.
\* ------------------------------------------------------------------------
C27_DirectMessageBypassesGuard ==
  [][\A h \in Handlers :
       (handlers[h].pc = "perm" /\ ChannelKind(handlers[h].msg.channel) = "dm"
          /\ handlers'[h] # handlers[h]) =>
         /\ UNCHANGED <<accountToAccountChains, guardObs>>
         /\ handlers'[h].pc \in {"typingWait", "safeWait1"}]_vars

C27_Witness ==
  \E h \in Handlers :
    /\ handlers[h].pc = "typingWait"
    /\ ChannelKind(handlers[h].msg.channel) = "dm"
    /\ ~handlers[h].msg.authorBot
    /\ MapHas(accountToAccountChains, "g1")
    /\ accountToAccountChains["g1"].chainCount = MAX_BOT_CHAIN
    /\ accountToAccountChains["g1"].lastAccountId = handlers[h].account

\* ------------------------------------------------------------------------
\* C28: for an unaddressed message whose only content signal is a question
\* mark (at most 100 characters, no '!', no emotional keyword) the unified
\* response probability is min(0.8, base(L) x 1.8) for every interaction
\* rate L.
\* ------------------------------------------------------------------------
QuestionOnly(m) == m.question /\ ~m.exclamation /\ ~m.emotionWord /\ ~m.long

C28_QuestionBoost ==
  (chance.evaluated /\ chance.path = "unified" /\ QuestionOnly(chance.msg)) =>
    chance.probability =
      Min2(Percent(80), BaseResponseChance(chance.cfg.interactionRate) * 18 * 1000)

\* ------------------------------------------------------------------------
\* C29: calculateRealisticDelay draws its delay from the range selected by
\* the elapsed time with strict upper boundaries: negative or < 1 min gives
\* [3,25] s, [1,10) min [15,120] s, [10,30) min [30,240] s, [30,120) min
\* [60,480] s, >= 120 min [180,900] s; the direct-message and the urgent
\* adjustment never raise either bound, never push the lower bound below
\* 2 s and always leave min <= max, so the draw is well defined for all 20
\* combinations; the smallest draw gives the lower and the largest draw the
\* upper bound.
\* ------------------------------------------------------------------------
TableRange(ms) ==
  IF ms < 0 \/ ms < 1 * MinuteMs THEN <<3, 25>>
  ELSE IF 1 * MinuteMs <= ms /\ ms < 10 * MinuteMs THEN <<15, 120>>
  ELSE IF 10 * MinuteMs <= ms /\ ms < 30 * MinuteMs THEN <<30, 240>>
  ELSE IF 30 * MinuteMs <= ms /\ ms < 120 * MinuteMs THEN <<60, 480>>
  ELSE <<180, 900>>

C29_DelayRangeTable ==
  timing.evaluated =>
    LET table == TableRange(timing.timeSinceLastMs)
        range == DelayRange(timing.timeSinceLastMs, timing.isDM, timing.isUrgent)
    IN /\ (~timing.isDM /\ ~timing.isUrgent) => range = table
       /\ range[1] <= table[1]
       /\ range[2] <= table[2]
       /\ range[1] >= 2
       /\ range[1] <= range[2]
       /\ range[1] * 1000 <= timing.responseDelayMs
       /\ timing.responseDelayMs <= range[2] * 1000
       /\ timing.responseDelayMs <= table[2] * 1000
       /\ timing.r = 0 => timing.responseDelayMs = range[1] * 1000
       /\ timing.r = RandDen => timing.responseDelayMs = range[2] * 1000

C29_Witness ==
  /\ timing.evaluated
  /\ timing.timeSinceLastMs = 1 * MinuteMs
  /\ timing.isDM
  /\ timing.isUrgent
  /\ timing.r = RandDen
  /\ timing.responseDelayMs = 86 * 1000

\* ------------------------------------------------------------------------
\* C30: after any sequence of getUnseenRandomRedditImage calls the recency
\* cache of every channel holds at most RECENTLY_SENT_IMAGE_CACHE_SIZE (30)
\* identifiers, and immediately after a call has written the cache for the
\* item it returns (a new one, or a repeat of the final attempt) that
\* item's identifier is the first element, followed by the former entries
\* in their order, the oldest being dropped first.
\* ------------------------------------------------------------------------
Returns(h) ==
  /\ handlers[h].pc = "media"
  /\ handlers'[h].pc # "media"
  /\ handlers'[h].fetchResult # None

C30_CacheBoundedNewestFirst ==
  [][\A c \in Channels :
       LET old == CacheGet(recentlySentRedditImagesByChannel, c)
           new == CacheGet(recentlySentRedditImagesByChannel', c)
       IN /\ Len(old) <= RECENTLY_SENT_IMAGE_CACHE_SIZE
          /\ Len(new) <= RECENTLY_SENT_IMAGE_CACHE_SIZE
          /\ \A h \in Handlers :
               (Returns(h) /\ handlers[h].msg.channel = c) =>
                 /\ Len(new) = Min2(Len(old) + 1, RECENTLY_SENT_IMAGE_CACHE_SIZE)
                 /\ new[1] = handlers'[h].fetchResult
                 /\ \A i \in 2..Len(new) : new[i] = old[i - 1]
          /\ new # old => \E h \in Handlers : Returns(h) /\ handlers[h].msg.channel = c]_vars

C30_Witness ==
  /\ MapHas(recentlySentRedditImagesByChannel, "g1")
  /\ LET ids == recentlySentRedditImagesByChannel["g1"]
     IN /\ Len(ids) = RECENTLY_SENT_IMAGE_CACHE_SIZE
        /\ ids[1] = FullCache[1]
        /\ ids[2] \in Items
        /\ ids[3] = FullCache[1]
        /\ ids[RECENTLY_SENT_IMAGE_CACHE_SIZE] = FullCache[RECENTLY_SENT_IMAGE_CACHE_SIZE - 2]

\* ------------------------------------------------------------------------
\* C31: shouldAttachRedditImage with the force override, for an account
\* whose media source is configured, returns true and leaves the cadence
\* entry of the channel untouched: it creates no entry and changes neither
\* the running count, the target nor the instant of the last attachment (and
\* no other entry either), so forced attachments neither advance nor reset
\* the regular cadence.
\* ------------------------------------------------------------------------
ForcedEvaluation ==
  /\ cadenceSteps' = cadenceSteps + 1
  /\ cadenceObs'.last.kind = "skip"
  /\ accountConfigs[cadenceObs'.last.id].redditConfig.present
  /\ accountConfigs[cadenceObs'.last.id].redditConfig.subreddits > 0

C31_ForcedLeavesCadence ==
  [][ForcedEvaluation =>
       /\ cadenceObs'.last.attach
       /\ channelMessageTrackers' = channelMessageTrackers
       /\ recentlySentRedditImagesByChannel' = recentlySentRedditImagesByChannel
       /\ cadenceObs'.evals = cadenceObs.evals
       /\ cadenceObs'.since = cadenceObs.since]_vars

C31_Witness ==
  /\ cadenceObs.last.kind = "skip"
  /\ cadenceObs.last.attach
  /\ MapHas(channelMessageTrackers, cadenceObs.last.ch)
  /\ channelMessageTrackers[cadenceObs.last.ch].messageCount = 1
  /\ channelMessageTrackers[cadenceObs.last.ch].targetMessageCount = 2
  /\ channelMessageTrackers[cadenceObs.last.ch].lastImageTime = 0

\* ------------------------------------------------------------------------
\* C32: a blocked candidate reply leaves the Chain Guard entry of the
\* channel (count, last speaker, instant of the last activity) and every
\* other entry unchanged, so repeated blocked attempts do not extend the
\* block: once more than BOT_CHAIN_INACTIVITY_RESET_MS (10 minutes) have
\* passed since the last allowed reply of the identity, its next candidate
\* reply is allowed again, with count 1.
\* ------------------------------------------------------------------------
GuardCall == guardSteps' = guardSteps + 1 /\ guardObs'.last.kind = "call"

C32_BlockedLeavesEntry ==
  [][GuardCall =>
       LET c == guardObs'.last.ch
           id == guardObs'.last.id
       IN /\ ~guardObs'.last.allowed =>
               accountToAccountChains' = accountToAccountChains
          /\ (guardObs.run[c].id = id
                /\ now - guardObs.run[c].lastT > BOT_CHAIN_INACTIVITY_RESET_MS) =>
               /\ guardObs'.last.allowed
               /\ accountToAccountChains'[c] =
                    [chainCount |-> 1, lastAccountId |-> id, lastActivity |-> now]]_vars

C32_Witness ==
  /\ guardObs.last.kind = "call"
  /\ guardObs.last.allowed
  /\ guardObs.last.blockedBefore = guardObs.last.id
  /\ guardObs.last.runBefore.id = guardObs.last.id
  /\ guardObs.last.runBefore.n = MAX_BOT_CHAIN
  /\ guardObs.last.t - guardObs.last.runBefore.lastT > BOT_CHAIN_INACTIVITY_RESET_MS
  /\ accountToAccountChains[guardObs.last.ch].chainCount = 1

\* ------------------------------------------------------------------------
\* C33: the eviction of the Chain Guard preserves its behaviour: the sweep
\* runs only when the map holds more than CHAIN_CLEANUP_THRESHOLD (1000)
\* entries, removes only entries whose last activity is more than 20
\* minutes old, never the entry just written, and every allow/block
\* decision is the one of a guard that never evicts: the two guards hold
\* the same entry wherever the real one holds an entry, and an entry that
\* only the never-evicting guard holds is older than 20 minutes, and so is
\* reset by the next call.
\* ------------------------------------------------------------------------
Agree(chains, shadow, t) ==
  /\ DOMAIN chains \subseteq DOMAIN shadow
  /\ \A k \in DOMAIN chains : chains[k] = shadow[k]
  /\ \A k \in DOMAIN shadow \ DOMAIN chains :
       shadow[k].lastActivity < t - 2 * BOT_CHAIN_INACTIVITY_RESET_MS

C33_EvictionPreservesBehaviour ==
  [][/\ Agree(accountToAccountChains, shadowGuard.chains, now)
     /\ Agree(accountToAccountChains', shadowGuard'.chains, now')
     /\ (guardSteps' = guardSteps + 1 /\ shadowGuard'.kind = "call") =>
          LET c == shadowGuard'.ch
              written == DOMAIN accountToAccountChains \cup {c}
              removed == written \ DOMAIN accountToAccountChains'
          IN /\ shadowGuard'.allowed = shadowGuard'.shadowAllowed
             /\ removed # {} =>
                  /\ shadowGuard'.allowed
                  /\ Cardinality(written) > CHAIN_CLEANUP_THRESHOLD
             /\ \A k \in removed :
                  /\ k # c
                  /\ accountToAccountChains[k].lastActivity
                       < now - 2 * BOT_CHAIN_INACTIVITY_RESET_MS
             /\ shadowGuard'.allowed => MapHas(accountToAccountChains', c)]_vars

C33_Witness ==
  /\ shadowGuard.kind = "call"
  /\ shadowGuard.ch = "1"
  /\ shadowGuard.id = "bot1"
  /\ shadowGuard.allowed
  /\ shadowGuard.shadowAllowed
  /\ MapHas(accountToAccountChains, "g1")
  /\ MapSize(accountToAccountChains) = CHAIN_CLEANUP_THRESHOLD + 1
  /\ MapSize(shadowGuard.chains) = CHAIN_CLEANUP_THRESHOLD + 1
  /\ accountToAccountChains["1"].chainCount = 1

\* ------------------------------------------------------------------------
\* C34: chains are tracked per channel: whether a candidate reply in channel
\* c is allowed depends only on the events of channel c.  A call or a human
\* message in c changes the entry of no other channel (a sweep may drop an
\* entry older than 20 minutes, and the guard that never evicts keeps it
\* unchanged), and the decision of a call in c is the one of a guard that
\* holds nothing but the never-evicted entry of c, which only the events of
\* c have written.
\* ------------------------------------------------------------------------
Restrict(m, K) == [k \in DOMAIN m \cap K |-> m[k]]

C34_ChainsPerChannel ==
  [][guardSteps' = guardSteps + 1 =>
       LET c == shadowGuard'.ch
           id == shadowGuard'.id
           own == GuardWithoutEviction(Restrict(shadowGuard.chains, {c}), c, id, now)
       IN /\ \A k \in (DOMAIN shadowGuard.chains \cup DOMAIN shadowGuard'.chains) \ {c} :
               /\ MapHas(shadowGuard.chains, k)
               /\ MapHas(shadowGuard'.chains, k)
               /\ shadowGuard'.chains[k] = shadowGuard.chains[k]
          /\ \A k \in (DOMAIN accountToAccountChains
                         \cup DOMAIN accountToAccountChains') \ {c} :
               /\ MapHas(accountToAccountChains, k)
               /\ MapHas(accountToAccountChains', k) =>
                    accountToAccountChains'[k] = accountToAccountChains[k]
               /\ ~MapHas(accountToAccountChains', k) =>
                    accountToAccountChains[k].lastActivity
                      < now - 2 * BOT_CHAIN_INACTIVITY_RESET_MS
          /\ shadowGuard'.kind = "call" =>
               /\ shadowGuard'.allowed = own.allowed
               /\ own.allowed => accountToAccountChains'[c] = own.chains[c]
               /\ ~own.allowed => accountToAccountChains'[c] = accountToAccountChains[c]
          /\ shadowGuard'.kind = "human" =>
               /\ ~MapHas(accountToAccountChains', c)
               /\ ~MapHas(shadowGuard'.chains, c)]_vars

C34_Witness ==
  /\ shadowGuard.kind = "call"
  /\ shadowGuard.ch = "2"
  /\ shadowGuard.id = "bot1"
  /\ ~shadowGuard.allowed
  /\ MapHas(accountToAccountChains, "g1")
  /\ ~MapHas(accountToAccountChains, "1")
  /\ MapHas(shadowGuard.chains, "1")

\* ------------------------------------------------------------------------
\* C35: the sweep of the Interaction Ledger removes an entry only when the
\* ledger, with the entry just written, holds more than
\* INTERACTION_TRACKING_CLEANUP_THRESHOLD (1000) entries and the timestamp
\* of that entry is older than INTERACTION_TRACKING_RETENTION_MS (24 hours);
\* an entry younger than the window, and the entry written by the call that
\* triggers the sweep, is never removed.
\* ------------------------------------------------------------------------
C35_LedgerSweepOnlyOldAndFull ==
  [][ledgerSteps' = ledgerSteps + 1 =>
       LET removed == DOMAIN lastInteractionTimes \ DOMAIN lastInteractionTimes'
       IN /\ removed # {} =>
               Cardinality(DOMAIN lastInteractionTimes' \cup removed)
                 > INTERACTION_TRACKING_CLEANUP_THRESHOLD
          /\ \A k \in removed :
               lastInteractionTimes[k] < now - INTERACTION_TRACKING_RETENTION_MS
          /\ \A k \in DOMAIN lastInteractionTimes :
               lastInteractionTimes[k] >= now - INTERACTION_TRACKING_RETENTION_MS =>
                 MapHas(lastInteractionTimes', k)
          /\ \E k \in DOMAIN lastInteractionTimes' : lastInteractionTimes'[k] = now]_vars

C35_Witness ==
  /\ Cardinality(replyObs.gone) >= INTERACTION_TRACKING_CLEANUP_THRESHOLD
  /\ MapSize(lastInteractionTimes) = 2
  /\ \E k \in DOMAIN lastInteractionTimes : lastInteractionTimes[k] = now
  /\ \E k \in DOMAIN lastInteractionTimes :
       lastInteractionTimes[k] < now - INTERACTION_TRACKING_RETENTION_MS

\* ------------------------------------------------------------------------
\* C36: every invocation of the message handler terminates, whatever the
\* collaborators do (inference error or rate limit, conversation-fetch
\* error, typing-indicator error, media failure, send failure): it ends
\* having sent at most one message for its inbound message, the reply or
\* one fallback message and never both, the fallback is tried at most once,
\* and every failure ends in the handler's own catch block.
\* ------------------------------------------------------------------------
Outcomes ==
  {"self", "denied", "ignored", "blocked", "rate_limited", "replied", "nosend",
   "error", "fallback", "fallbackFailed"}

C36_HandlerTerminates ==
  /\ [](\A h \in Handlers :
          /\ ~(handlers[h].sentReply /\ handlers[h].sentFallback)
          /\ handlers[h].fallbackTries <= 1
          /\ handlers[h].sentFallback => handlers[h].fallbackTries = 1
          /\ handlers[h].pc = "done" => handlers[h].outcome \in Outcomes)
  /\ \A h \in OneHandler :
       (handlers[h].pc \notin {"idle", "done"}) ~> (handlers[h].pc = "done")

C36_Witness ==
  \E h \in Handlers :
    /\ handlers[h].pc = "done"
    /\ handlers[h].outcome = "fallback"
    /\ handlers[h].typingShown
    /\ handlers[h].sentFallback
    /\ ~handlers[h].sentReply
    /\ handlers[h].fallbackTries = 1
    /\ MapHas(recentlySentRedditImagesByChannel, handlers[h].msg.channel)

\* ------------------------------------------------------------------------
\* C37: configuration loading ensures a valid cadence interval: for every
\* pair of whole numbers in REDDIT_MIN_MESSAGES and REDDIT_MAX_MESSAGES (0
\* and negative numbers included) the loaded media configuration satisfies
\* 1 <= minMessages <= maxMessages.
\* ------------------------------------------------------------------------
C37_LoadedIntervalValid ==
  loaded.evaluated =>
    /\ 1 <= loaded.redditConfig.minMessages
    /\ loaded.redditConfig.minMessages <= loaded.redditConfig.maxMessages

\* ------------------------------------------------------------------------
\* C38: the Reddit requests are rate limited globally to one per second:
\* under every interleaving of concurrent callers of enforceRateLimit any
\* two requests that pass it are started at least REDDIT_API_RATE_LIMIT_MS
\* (1000 ms) apart.
\* ------------------------------------------------------------------------
C38_RequestsSpaced ==
  \A i \in DOMAIN rateLimit.starts, j \in DOMAIN rateLimit.starts :
    i < j => rateLimit.starts[j] - rateLimit.starts[i] >= REDDIT_API_RATE_LIMIT_MS

\* ------------------------------------------------------------------------
\* C39: a 404 response from Reddit is not retried: when a subreddit listing
\* request made by fetchSubredditImages fails with HTTP 404,
\* retryWithBackoff performs exactly one attempt and propagates the failure
\* without any backoff wait, whereas other failures are attempted at most
\* REDDIT_MAX_RETRIES (3) times.
\* ------------------------------------------------------------------------
C39_NotFoundNotRetried ==
  /\ retry.attempts <= REDDIT_MAX_RETRIES
  /\ \A i \in DOMAIN retry.responses :
       retry.responses[i] = "http404" =>
         /\ retry.pc = "thrown"
         /\ retry.attempts = i
         /\ retry.waitTime = 0
         /\ (i = 1 => retry.waitedMs = 0)

====
